---- MODULE Spec2Model ----
(***************************************************************************)
(* Social listening agent: the search / score / refine control loop of     *)
(* agent.py with its export, the batch scorer and the keyword refiner of   *)
(* scorer.py, and the outreach classifier and drafter of outreach.py.      *)
(*                                                                         *)
(* A Python dict is a TLA+ record whose DOMAIN is the dict's key set, so   *)
(* that a key can be absent; dict.get and dict.update are Get and Update.  *)
(***************************************************************************)
EXTENDS Integers, Sequences, FiniteSets, TLC

VARIABLES
    \* ---- agent.py main() ----
    pc,                 \* position of main(): search, score, refine, final, done,
                        \* exited, saved, aborted
    max_iterations,     \* config max_refinement_iterations
    max_results,        \* config max_results
    min_score,          \* config min_intent_score
    sources,            \* config sources
    keywords,           \* config keywords
    iteration,          \* loop variable of the for loop
    all_seen_urls,
    all_qualified,
    total_raw,
    current_keywords,
    new_posts,
    top,
    search_passes,      \* history: number of scrape passes performed
    score_passes,       \* history: number of score_opportunities calls made
    stop_reason,        \* history: which exit of the loop was taken
    saved,              \* the output files written: csv, json, outreach
    \* ---- scorer.py score_opportunities(), stepwise ----
    sc_pc,              \* off, batch, attempt, merged, returned, raised
    sc_posts,           \* the posts argument (dicts are updated in place)
    sc_scored,          \* the scored list
    sc_start,           \* loop variable start
    sc_attempt,         \* loop variable attempt
    sc_result,          \* local variable result
    sc_calls,           \* history: oracle calls made for each batch
    sc_fails,           \* history: failed oracle calls for each batch
    \* ---- outreach.py classify_outreach_action() ----
    cl_pc,              \* off, ready, classified
    cl_post,            \* the post argument
    cl_tier,            \* the returned value
    \* ---- agent.py main(), lines 131-159 of one iteration, stepwise ----
    sp_pc,              \* off, reddit, web, dedup, score, stopped
    sp_posts,           \* iteration_posts
    sp_calls,           \* history: the source calls made and how each ended
    \* ---- outreach.py draft_outreach(), stepwise ----
    dr_pc,              \* off, classify, draft, attempt, append, returned, raised
    dr_posts,           \* the posts argument
    dr_i,               \* position of the first loop in posts
    dr_todo,            \* posts_to_draft
    dr_j,               \* position of the second loop in posts_to_draft
    dr_attempt,         \* loop variable attempt
    dr_parsed,          \* local variable parsed
    dr_drafts,          \* the drafts list
    dr_calls,           \* history: drafting oracle calls made for each post
    \* ---- scorer.py generate_refined_keywords() ----
    rf_pc,              \* off, enter, ready, returned, done
    rf_original,        \* the original_keywords argument
    rf_posts,           \* the high_scoring_posts argument
    rf_summaries,       \* post_summaries as sent to the oracle
    rf_raw,             \* new_keywords as parsed from the oracle's answer
    rf_result,          \* the returned list
    rf_calls,           \* history: refinement oracle calls made
    rf_working,         \* history: current_keywords when the step began
    \* ---- outreach.py _detect_platform() ----
    pl_pc,              \* off, ready, detected
    pl_source,          \* post.get("source", "")
    pl_found,           \* the substrings tested for that post.get("url", "") contains
    pl_platform,        \* the returned value
    \* ---- ui.py, the loop of the run button, run beside main() ----
    ui,                 \* the locals of ui.py: pc, iteration, all_seen_urls,
                        \* all_qualified, total_raw, current_keywords,
                        \* new_posts, top, and calls (history: the
                        \* collaborator calls of its last step)
    agent_calls         \* history: the collaborator calls of main()'s last step

ctlVars == <<pc, max_iterations, max_results, min_score, sources, keywords, iteration,
             all_seen_urls, all_qualified, total_raw, current_keywords,
             new_posts, top, search_passes, score_passes, stop_reason, saved>>
scVars == <<sc_pc, sc_posts, sc_scored, sc_start, sc_attempt, sc_result,
            sc_calls, sc_fails>>
clVars == <<cl_pc, cl_post, cl_tier>>
spVars == <<sp_pc, sp_posts, sp_calls>>
drVars == <<dr_pc, dr_posts, dr_i, dr_todo, dr_j, dr_attempt, dr_parsed,
            dr_drafts, dr_calls>>
rfVars == <<rf_pc, rf_original, rf_posts, rf_summaries, rf_raw, rf_result, rf_calls,
           rf_working>>
plVars == <<pl_pc, pl_source, pl_found, pl_platform>>
uiVars == <<ui, agent_calls>>
vars == <<ctlVars, scVars, clVars, spVars, drVars, rfVars, plVars, uiVars>>

(***************************************************************************)
(* Bounds of the model.                                                    *)
(***************************************************************************)
MaxIterations == 3      \* largest configured max_refinement_iterations
MaxResults == 2         \* largest configured max_results
MaxUrl == 2             \* URLs the sources can return are 1..MaxUrl
MaxPerSource == 1       \* posts one source call returns at most
MaxItems == 2           \* items in a scoring oracle array (scorer runs)
MaxPosts == 6           \* posts passed to score_opportunities (scorer runs)
MaxDraftPosts == 3      \* posts passed to draft_outreach (draft runs)
MaxKeywords == 2        \* keywords in a list (refiner runs)

(***************************************************************************)
(* Program constants.                                                      *)
(***************************************************************************)
batch_size == 5
MaxAttempts == 3
SummaryLimit == 10
DM_MIN_SCORE == 80
COMMENT_MIN_SCORE == 70
CONTENT_NOTE_MIN_SCORE == 60
DraftAttempts == 3

(***************************************************************************)
(* Python helpers.                                                         *)
(***************************************************************************)
Get(d, k, default) == IF k \in DOMAIN d THEN d[k] ELSE default

Update(d, u) ==
    [f \in (DOMAIN d) \cup (DOMAIN u) |-> IF f \in DOMAIN u THEN u[f] ELSE d[f]]

Min(a, b) == IF a <= b THEN a ELSE b

\* s[:n]
Prefix(s, n) == SubSeq(s, 1, Min(Len(s), n))

\* s[a:b] with 0-based Python bounds
Slice(s, a, b) == SubSeq(s, a + 1, Min(Len(s), b))

\* sequences over S of length at most n
SeqsUpTo(S, n) == UNION {[1..k -> S] : k \in 0..n}

\* sequences over S of length at most n without a repeated element
DistinctSeqs(S, n) ==
    {s \in SeqsUpTo(S, n) : \A i, j \in DOMAIN s : i # j => s[i] # s[j]}

MinOf(S, default) == IF S = {} THEN default ELSE CHOOSE m \in S : \A x \in S : m <= x

MaxOf(S, default) == IF S = {} THEN default ELSE CHOOSE m \in S : \A x \in S : m >= x

EmptyDict == [f \in {} |-> 0]

(***************************************************************************)
(* scorer.py: the value of `result` after the retry loop.                  *)
(*   [kind |-> "null"]    JSON null, or no attempt parsed: result is None  *)
(*   [kind |-> "number"]  a JSON number or boolean                         *)
(*   [kind |-> "object"]  a non-empty JSON object or string                *)
(*   [kind |-> "list"]    a JSON array; an empty object or string behaves  *)
(*                        as the empty array does                          *)
(* An array item is [t |-> "dict", v |-> d] or [t |-> "number"].           *)
(* The intent_score the oracle gives is an integer, in 0..100 or not.      *)
(***************************************************************************)
NoneResult == [kind |-> "null", items |-> <<>>]

NumberResult == [kind |-> "number", items |-> <<>>]

ObjectResult == [kind |-> "object", items |-> <<>>]

ListResult(items) == [kind |-> "list", items |-> items]

DictItem(d) == [t |-> "dict", v |-> d]

NumberItem == [t |-> "number"]

\* the dict of lines 99-105
FallbackFields ==
    [topic_label |-> "general_education",
     intent_score |-> 0,
     recommended_action |-> "content",
     suggested_response |-> "",
     why_this_matters |-> "Scoring failed"]

\* mutant of MergedFields: the oracle's dict is taken as it is, without the
\* defaults for the fields it lacks
MergedFieldsVerbatim(info) == info

\* the dict of lines 117-123
MergedFields(info) ==
    [topic_label |-> Get(info, "topic_label", "general_education"),
     intent_score |-> Get(info, "intent_score", 0),
     recommended_action |-> Get(info, "recommended_action", "content"),
     suggested_response |-> Get(info, "suggested_response", ""),
     why_this_matters |-> Get(info, "why_this_matters", "")]

\* mutant of FallbackBatch: only the first post of the batch is updated
FallbackFirstOnly(batch) ==
    [i \in DOMAIN batch |-> IF i = 1 THEN Update(batch[i], FallbackFields) ELSE batch[i]]

\* lines 96-107: every post of the batch gets the fallback fields
FallbackBatch(batch) == [i \in DOMAIN batch |-> Update(batch[i], FallbackFields)]

\* line 110: all("id" in item for item in result), which stops at the first
\* item without an id and raises TypeError on an item that is not a container
HasIds(items) ==
    LET noId == {i \in DOMAIN items : items[i].t = "dict" /\ "id" \notin DOMAIN items[i].v}
        nonDict == {i \in DOMAIN items : items[i].t # "dict"}
        stop == MinOf(noId \cup nonDict, 0)
    IN  IF stop = 0 THEN "true"
        ELSE IF stop \in nonDict THEN "raise"
        ELSE "false"

\* lines 111-116: score_map.get(i, {}) for the 0-based position i
ScoreMapGet(items, byId, i) ==
    IF byId
    THEN LET hits == {j \in DOMAIN items : items[j].v.id = i}
         IN  IF hits = {} THEN DictItem(EmptyDict) ELSE items[MaxOf(hits, 0)]
    ELSE IF i + 1 \in DOMAIN items THEN items[i + 1] ELSE DictItem(EmptyDict)

\* lines 109-124 for one batch and a result that is not None:
\*   raised: an exception left the function, done: posts appended to scored
\*   before it, posts: the batch after the in-place updates
MergeBatch(batch, result) ==
    IF result.kind # "list" \/ HasIds(result.items) = "raise"
    THEN [raised |-> TRUE, done |-> 0, posts |-> batch]
    ELSE LET byId == HasIds(result.items) = "true"
             info(i) == ScoreMapGet(result.items, byId, i - 1)
             bad == {i \in DOMAIN batch : info(i).t # "dict"}
             stop == MinOf(bad, Len(batch) + 1)
         IN  [raised |-> bad # {},
              done |-> stop - 1,
              posts |-> [i \in DOMAIN batch |->
                            IF i < stop
                            THEN Update(batch[i], MergedFields(info(i).v))
                            ELSE batch[i]]]

\* lines 96-124 for one batch
ScoreBatch(batch, result) ==
    IF result.kind = "null"
    THEN [raised |-> FALSE, done |-> Len(batch), posts |-> FallbackBatch(batch)]
    ELSE MergeBatch(batch, result)

\* line 69
NumBatches(n) == (n + batch_size - 1) \div batch_size

\* line 67: posts[start : start + batch_size] for the b-th batch, b from 1
BatchOf(posts, b) == Slice(posts, (b - 1) * batch_size, b * batch_size)

RECURSIVE ScoreFrom(_, _, _, _)
ScoreFrom(posts, results, b, scored) ==
    IF b > NumBatches(Len(posts))
    THEN [raised |-> FALSE, scored |-> scored]
    ELSE LET r == ScoreBatch(BatchOf(posts, b), results[b])
         IN  IF r.raised
             THEN [raised |-> TRUE, scored |-> scored \o SubSeq(r.posts, 1, r.done)]
             ELSE ScoreFrom(posts, results, b + 1, scored \o r.posts)

\* score_opportunities(posts, model), given the value `result` has after the
\* retry loop of each batch
ScoreOpportunities(posts, results) ==
    IF Len(posts) = 0
    THEN [raised |-> FALSE, scored |-> <<>>]
    ELSE ScoreFrom(posts, results, 1, <<>>)

(***************************************************************************)
(* Sources.  The URL u of the pool stands for "https://<Host(u)>/<u>".     *)
(***************************************************************************)
UrlPool == 1..MaxUrl

Host(u) == IF u % 2 = 1 THEN "reddit.com" ELSE "example.com"

\* web_scraper.py _classify_source
ClassifySource(u) ==
    IF Host(u) = "twitter.com" \/ Host(u) = "x.com" THEN "twitter"
    ELSE IF Host(u) = "quora.com" THEN "quora"
    ELSE IF Host(u) = "reddit.com" THEN "reddit"
    ELSE "web"

\* reddit_scraper.py _submission_to_dict: the url is https://reddit.com<permalink>
RedditUrls == {u \in UrlPool : Host(u) = "reddit.com"}

RedditPost(u) == [source |-> "reddit", url |-> u]

\* web_scraper.py scrape_web, the appended dict
WebPost(u) == [source |-> ClassifySource(u), url |-> u]

\* one call of a source: it raises, or returns posts with pairwise distinct
\* urls (both scrapers keep a local seen_urls set)
SourceOutcomes(U) ==
    {[raised |-> TRUE, urls |-> <<>>]} \cup
    {[raised |-> FALSE, urls |-> s] : s \in DistinctSeqs(U, MaxPerSource)}

\* lines 134-139 and 141-146: a source that is not enabled or that raises
\* extends iteration_posts by nothing
Scraped(name, outcome) ==
    IF name \in sources /\ ~outcome.raised THEN outcome.urls ELSE <<>>

\* the dict a source builds for the url u
MakePost(name, u) == IF name = "reddit" THEN RedditPost(u) ELSE WebPost(u)

\* mutant of Extend: a call that raises empties iteration_posts
ExtendOrReset(posts, name, outcome) ==
    IF name \in sources /\ outcome.raised THEN <<>>
    ELSE posts \o [i \in DOMAIN Scraped(name, outcome) |->
                      MakePost(name, Scraped(name, outcome)[i])]

\* lines 137 and 144: iteration_posts.extend(...) inside its try
Extend(posts, name, outcome) ==
    posts \o [i \in DOMAIN Scraped(name, outcome) |->
                 MakePost(name, Scraped(name, outcome)[i])]

\* history field disc: the order of discovery of a new post, its iteration
\* first and its place among the new posts of the iteration second
Numbered(posts, iter) ==
    [i \in DOMAIN posts |->
        Update(posts[i], [disc |-> (iter - 1) * 2 * MaxPerSource + i])]

(***************************************************************************)
(* agent.py main(): dedup, qualification, sort and trim.                   *)
(***************************************************************************)
\* mutant of FilterNew: the seen set is not consulted
FilterNothing(posts, seen) == posts

\* line 151
FilterNew(posts, seen) == SelectSeq(posts, LAMBDA p : p.url \notin seen)

\* lines 152-153
RecordSeen(seen, posts) == seen \cup {posts[i].url : i \in DOMAIN posts}

\* mutant of Qualifies: the configured threshold is not applied
QualifiesAny(p) == Get(p, "intent_score", 0) >= 0

\* line 165
Qualifies(p) == Get(p, "intent_score", 0) >= min_score

\* mutant of InsertDesc: a post goes before the posts of equal score
RECURSIVE InsertDescUnstable(_, _)
InsertDescUnstable(sorted, p) ==
    IF sorted = <<>> THEN <<p>>
    ELSE IF Head(sorted).intent_score > p.intent_score
         THEN <<Head(sorted)>> \o InsertDescUnstable(Tail(sorted), p)
         ELSE <<p>> \o sorted

\* list.sort / sorted with key intent_score and reverse=True: stable, so a
\* post goes behind every post already placed whose score is not lower
RECURSIVE InsertDesc(_, _)
InsertDesc(sorted, p) ==
    IF sorted = <<>> THEN <<p>>
    ELSE IF Head(sorted).intent_score >= p.intent_score
         THEN <<Head(sorted)>> \o InsertDesc(Tail(sorted), p)
         ELSE <<p>> \o sorted

RECURSIVE SortedDescFrom(_, _, _)
SortedDescFrom(s, i, acc) ==
    IF i > Len(s) THEN acc ELSE SortedDescFrom(s, i + 1, InsertDesc(acc, s[i]))

\* lines 177 and 189
SortedDesc(s) == SortedDescFrom(s, 1, <<>>)

\* mutant of Trim: one post too many is kept
TrimOneMore(s, n) == Prefix(s, n + 1)

\* line 190
Trim(s, n) == Prefix(s, n)

(***************************************************************************)
(* scorer.py generate_refined_keywords.                                    *)
(***************************************************************************)
KeywordPool == {"GRE prep", "GRE PREP", "TOEFL tips"}

\* str.lower on the keywords of the pool
Lower(k) ==
    CASE k = "GRE prep" -> "gre prep"
      [] k = "GRE PREP" -> "gre prep"
      [] k = "TOEFL tips" -> "toefl tips"
      [] OTHER -> k

\* lines 139-146
PostSummaries(posts) ==
    [i \in DOMAIN Prefix(posts, SummaryLimit) |->
        [topic |-> Get(posts[i], "topic_label", ""),
         score |-> Get(posts[i], "intent_score", 0)]]

\* the refinement oracle call: it fails (transport error, output that does
\* not parse or is not an array of strings), or yields an array of keywords
RefineOutcomes ==
    {[ok |-> FALSE, kws |-> <<>>]} \cup
    {[ok |-> TRUE, kws |-> s] : s \in DistinctSeqs(KeywordPool, 2)}

\* mutant of GenerateRefinedKeywords: the comparison is case-sensitive
GenerateRefinedKeywordsExact(original_keywords, high_scoring_posts, outcome) ==
    IF ~outcome.ok THEN <<>>
    ELSE LET originals == {original_keywords[i] : i \in DOMAIN original_keywords}
         IN  SelectSeq(outcome.kws, LAMBDA k : k \notin originals)

\* mutant of GenerateRefinedKeywords: a failure gives the original keywords
GenerateRefinedKeywordsEcho(original_keywords, high_scoring_posts, outcome) ==
    IF ~outcome.ok THEN original_keywords
    ELSE LET original_lower == {Lower(original_keywords[i]) : i \in DOMAIN original_keywords}
         IN  SelectSeq(outcome.kws, LAMBDA k : Lower(k) \notin original_lower)

\* mutant of GenerateRefinedKeywords: keywords of the working set are
\* dropped too
GenerateRefinedKeywordsNotWorking(original_keywords, high_scoring_posts, outcome) ==
    IF ~outcome.ok THEN <<>>
    ELSE LET original_lower == {Lower(original_keywords[i]) : i \in DOMAIN original_keywords}
             working == {current_keywords[i] : i \in DOMAIN current_keywords}
         IN  SelectSeq(outcome.kws,
                       LAMBDA k : Lower(k) \notin original_lower /\ k \notin working)

\* lines 153-173
GenerateRefinedKeywords(original_keywords, high_scoring_posts, outcome) ==
    IF ~outcome.ok THEN <<>>
    ELSE LET original_lower == {Lower(original_keywords[i]) : i \in DOMAIN original_keywords}
         IN  SelectSeq(outcome.kws, LAMBDA k : Lower(k) \notin original_lower)

\* mutant of RefineArgs: the working set of the iteration is passed
RefineArgsWorkingSet ==
    [original_keywords |-> current_keywords,
     high_scoring_posts |-> SortedDesc(all_qualified)]

\* agent.py lines 176-177: the arguments of generate_refined_keywords
RefineArgs ==
    [original_keywords |-> keywords,
     high_scoring_posts |-> SortedDesc(all_qualified)]

(***************************************************************************)
(* The scoring oracle as the control loop sees it: per batch, the value of *)
(* `result` after the retry loop.                                          *)
(***************************************************************************)
ScoreChoices == {30, 70, 90}

CtlItem(score) ==
    DictItem([topic_label |-> "GRE", intent_score |-> score,
              recommended_action |-> "DM", suggested_response |-> "r",
              why_this_matters |-> "w"])

\* result is None, a number, or an array with one item per post
CtlResults(n) ==
    {NoneResult, NumberResult} \cup
    {ListResult(s) : s \in [1..n -> {CtlItem(v) : v \in ScoreChoices}]}

CtlResultChoices(posts) ==
    {r \in [1..NumBatches(Len(posts)) ->
                UNION {CtlResults(n) : n \in 1..Min(Len(posts), batch_size)}] :
        \A b \in DOMAIN r :
            r[b].kind = "list" => Len(r[b].items) = Len(BatchOf(posts, b))}

(***************************************************************************)
(* outreach.py: classification, platform detection and the draft records.  *)
(* The value of `parsed` after the retry loop of draft_outreach:           *)
(*   [kind |-> "none"]    None: no attempt parsed, or JSON null            *)
(*   [kind |-> "falsy"]   0, false, the empty string or the empty array    *)
(*   [kind |-> "truthy"]  a non-zero number, a non-empty string or array   *)
(*   [kind |-> "dict", v |-> d]  a JSON object, empty or not               *)
(***************************************************************************)
\* mutant of ClassifyOutreachAction: the tiers cascade on the score alone
ClassifyCascading(post) ==
    LET score == Get(post, "intent_score", 0)
        action == Get(post, "recommended_action", "")
    IN  IF action \notin {"DM", "comment", "content"} THEN "none"
        ELSE IF score >= DM_MIN_SCORE /\ action = "DM" THEN "dm"
        ELSE IF score >= COMMENT_MIN_SCORE /\ action # "content" THEN "comment"
        ELSE IF score >= CONTENT_NOTE_MIN_SCORE THEN "content_idea"
        ELSE "none"

\* lines 30-40; None is "none"
ClassifyOutreachAction(post) ==
    LET score == Get(post, "intent_score", 0)
        action == Get(post, "recommended_action", "")
    IN  IF score >= DM_MIN_SCORE /\ action = "DM" THEN "dm"
        ELSE IF score >= COMMENT_MIN_SCORE /\ action = "comment" THEN "comment"
        ELSE IF score >= CONTENT_NOTE_MIN_SCORE /\ action = "content" THEN "content_idea"
        ELSE "none"

\* `host in url`, for the URLs of the pool
UrlHas(post, host) == "url" \in DOMAIN post /\ Host(post.url) = host

\* the substrings lines 46-50 test the url for
PlatformSubstrings == {"reddit.com", "twitter.com", "x.com", "quora.com"}

\* mutant of PlatformOf: the source field of every platform is tested before
\* any url
PlatformOfSourceFirst(source, found) ==
    IF source = "reddit" THEN "reddit"
    ELSE IF source = "twitter" THEN "twitter"
    ELSE IF source = "quora" THEN "quora"
    ELSE IF "reddit.com" \in found THEN "reddit"
    ELSE IF "twitter.com" \in found \/ "x.com" \in found THEN "twitter"
    ELSE IF "quora.com" \in found THEN "quora"
    ELSE "web"

\* lines 46-52, for the source field and the set of tested substrings the
\* url contains
PlatformOf(source, found) ==
    IF source = "reddit" \/ "reddit.com" \in found THEN "reddit"
    ELSE IF source = "twitter" \/ "twitter.com" \in found \/ "x.com" \in found
         THEN "twitter"
    ELSE IF source = "quora" \/ "quora.com" \in found THEN "quora"
    ELSE "web"

\* lines 43-52
DetectPlatform(post) ==
    PlatformOf(Get(post, "source", ""),
               {h \in PlatformSubstrings : UrlHas(post, h)})

NoneParsed == [kind |-> "none"]

FalsyParsed == [kind |-> "falsy"]

TruthyParsed == [kind |-> "truthy"]

DictParsed(d) == [kind |-> "dict", v |-> d]

\* `if parsed` of lines 138 and 140
IsTrue(parsed) ==
    parsed.kind = "truthy" \/ (parsed.kind = "dict" /\ DOMAIN parsed.v # {})

\* lines 138 and 140: parsed.get raises AttributeError on a value that is
\* true and is not a dict
DraftRaises(parsed) == parsed.kind = "truthy"

\* the f-string of line 90, on the why_this_matters texts of the model
ContentReason(why) ==
    CASE why = "" -> "Content idea: "
      [] why = "w" -> "Content idea: w"
      [] why = "Scoring failed" -> "Content idea: Scoring failed"

\* mutant of ContentDraft: a content idea gets the text of a failed draft
ContentDraftPlaceholder(post, platform) ==
    [platform |-> platform,
     url |-> Get(post, "url", ""),
     post_title |-> Get(post, "title", ""),
     action_type |-> "content_idea",
     draft_message |-> "[Draft generation failed]",
     intent_score |-> Get(post, "intent_score", 0),
     reason_for_outreach |-> "Draft generation failed"]

\* lines 83-91
ContentDraft(post, platform) ==
    [platform |-> platform,
     url |-> Get(post, "url", ""),
     post_title |-> Get(post, "title", ""),
     action_type |-> "content_idea",
     draft_message |-> "",
     intent_score |-> Get(post, "intent_score", 0),
     reason_for_outreach |-> ContentReason(Get(post, "why_this_matters", ""))]

\* lines 133-141, for a parsed on which parsed.get does not raise
OracleDraft(post, action_type, platform, parsed) ==
    [platform |-> platform,
     url |-> Get(post, "url", ""),
     post_title |-> Get(post, "title", ""),
     action_type |-> action_type,
     draft_message |->
         IF IsTrue(parsed) THEN Get(parsed.v, "draft_message", "")
         ELSE "[Draft generation failed]",
     intent_score |-> Get(post, "intent_score", 0),
     reason_for_outreach |->
         IF IsTrue(parsed) THEN Get(parsed.v, "reason_for_outreach", "")
         ELSE "Draft generation failed"]

\* lines 75-77: each post with its classification and platform; idx is a
\* history field, the position of the post in the argument
Classified(posts) ==
    [i \in DOMAIN posts |->
        [post |-> posts[i],
         action_type |-> ClassifyOutreachAction(posts[i]),
         platform |-> DetectPlatform(posts[i]),
         idx |-> i]]

\* lines 82-93: the drafts of the first loop
ContentDrafts(posts) ==
    LET ideas == SelectSeq(Classified(posts), LAMBDA e : e.action_type = "content_idea")
    IN  [k \in DOMAIN ideas |-> ContentDraft(ideas[k].post, ideas[k].platform)]

\* line 95: posts_to_draft after the first loop
PostsToDraft(posts) ==
    SelectSeq(Classified(posts), LAMBDA e : e.action_type \in {"dm", "comment"})

\* draft_outreach(posts, model), given the value `parsed` has after the
\* retry loop of each post of posts_to_draft
DraftOutreach(posts, parsed) ==
    LET todo == PostsToDraft(posts)
    IN  [raised |-> \E j \in DOMAIN todo : DraftRaises(parsed[j]),
         drafts |->
             ContentDrafts(posts) \o
                 [j \in DOMAIN todo |->
                     IF DraftRaises(parsed[j]) THEN EmptyDict
                     ELSE OracleDraft(todo[j].post, todo[j].action_type,
                                      todo[j].platform, parsed[j])]]

\* the answer of the drafting oracle with both keys
FullDraft == [draft_message |-> "m", reason_for_outreach |-> "r"]

(***************************************************************************)
(* Initial values of the variables a run does not use.                     *)
(***************************************************************************)
CtlOff ==
    /\ pc = "off"
    /\ max_iterations = 0
    /\ max_results = 0
    /\ min_score = 0
    /\ sources = {}
    /\ keywords = <<>>
    /\ iteration = 0
    /\ all_seen_urls = {}
    /\ all_qualified = <<>>
    /\ total_raw = 0
    /\ current_keywords = <<>>
    /\ new_posts = <<>>
    /\ top = <<>>
    /\ search_passes = 0
    /\ score_passes = 0
    /\ stop_reason = "none"
    /\ saved = {}

ScOff ==
    /\ sc_pc = "off"
    /\ sc_posts = <<>>
    /\ sc_scored = <<>>
    /\ sc_start = 0
    /\ sc_attempt = 0
    /\ sc_result = NoneResult
    /\ sc_calls = <<>>
    /\ sc_fails = <<>>

ClOff ==
    /\ cl_pc = "off"
    /\ cl_post = EmptyDict
    /\ cl_tier = "unset"

PlOff ==
    /\ pl_pc = "off"
    /\ pl_source = ""
    /\ pl_found = {}
    /\ pl_platform = "unset"

UiOff ==
    /\ ui = [pc |-> "off", iteration |-> 0, all_seen_urls |-> {},
             all_qualified |-> <<>>, total_raw |-> 0, current_keywords |-> <<>>,
             new_posts |-> <<>>, top |-> <<>>, calls |-> <<>>]
    /\ agent_calls = <<>>

SpOff ==
    /\ sp_pc = "off"
    /\ sp_posts = <<>>
    /\ sp_calls = <<>>

DrOff ==
    /\ dr_pc = "off"
    /\ dr_posts = <<>>
    /\ dr_i = 0
    /\ dr_todo = <<>>
    /\ dr_j = 0
    /\ dr_attempt = 0
    /\ dr_parsed = [kind |-> "none"]
    /\ dr_drafts = <<>>
    /\ dr_calls = <<>>

RfOff ==
    /\ rf_pc = "off"
    /\ rf_original = <<>>
    /\ rf_posts = <<>>
    /\ rf_summaries = <<>>
    /\ rf_raw = [ok |-> FALSE, kws |-> <<>>]
    /\ rf_result = <<>>
    /\ rf_calls = 0
    /\ rf_working = <<>>

(***************************************************************************)
(* agent.py main(): the search-refine loop.                                *)
(***************************************************************************)
SourceConfigs == {{"reddit", "web"}, {"web"}}

MinScoreConfigs == {60}

KeywordConfigs == {<<"GRE prep">>}

\* lines 113-121
InitLoop ==
    /\ pc = "search"
    /\ max_iterations \in 1..MaxIterations
    /\ max_results \in 0..MaxResults
    /\ min_score \in MinScoreConfigs
    /\ sources \in SourceConfigs
    /\ keywords \in KeywordConfigs
    /\ iteration = 1
    /\ all_seen_urls = {}
    /\ all_qualified = <<>>
    /\ total_raw = 0
    /\ current_keywords = keywords
    /\ new_posts = <<>>
    /\ top = <<>>
    /\ search_passes = 0
    /\ score_passes = 0
    /\ stop_reason = "none"
    /\ saved = {}

Init ==
    /\ InitLoop
    /\ ScOff
    /\ ClOff
    /\ SpOff
    /\ DrOff
    /\ PlOff
    /\ UiOff
    /\ RfOff

\* mutant of Search: check A is left out and the iteration goes on to scoring
SearchWithoutCheckA ==
    /\ pc = "search"
    /\ \E ro \in SourceOutcomes(RedditUrls), wo \in SourceOutcomes(UrlPool) :
         LET fromReddit == Scraped("reddit", ro)
             fromWeb == Scraped("web", wo)
             aggregate ==
                 [i \in DOMAIN fromReddit |-> RedditPost(fromReddit[i])]
                     \o [i \in DOMAIN fromWeb |-> WebPost(fromWeb[i])]
             fresh == Numbered(FilterNew(aggregate, all_seen_urls), iteration)
         IN  /\ total_raw' = total_raw + Len(aggregate)
             /\ new_posts' = fresh
             /\ all_seen_urls' = RecordSeen(all_seen_urls, fresh)
             /\ search_passes' = search_passes + 1
             /\ pc' = "score"
    /\ UNCHANGED <<max_iterations, max_results, min_score, sources, keywords,
                   iteration, all_qualified, current_keywords, top, score_passes,
                   stop_reason>>
    /\ UNCHANGED <<saved, scVars, clVars, spVars, drVars, rfVars, plVars, uiVars>>

\* lines 131-159 for what the two sources answer: scrape the enabled
\* sources, count, dedup, check A
SearchStep(ro, wo) ==
    /\ pc = "search"
    /\ \E iteration_posts \in
             {LET fromReddit == Scraped("reddit", ro)
                  fromWeb == Scraped("web", wo)
              IN  [i \in DOMAIN fromReddit |-> RedditPost(fromReddit[i])]
                      \o [i \in DOMAIN fromWeb |-> WebPost(fromWeb[i])]} :
       \E fresh \in {Numbered(FilterNew(iteration_posts, all_seen_urls), iteration)} :
           /\ total_raw' = total_raw + Len(iteration_posts)
           /\ new_posts' = fresh
           /\ all_seen_urls' = RecordSeen(all_seen_urls, fresh)
           /\ search_passes' = search_passes + 1
           /\ IF fresh = <<>>
              THEN pc' = "final" /\ stop_reason' = "no_new_posts"
              ELSE pc' = "score" /\ stop_reason' = stop_reason
    /\ UNCHANGED <<max_iterations, max_results, min_score, sources, keywords,
                   iteration, all_qualified, current_keywords, top, score_passes>>

\* lines 131-159: scrape the enabled sources, count, dedup, check A
Search ==
    /\ pc = "search"
    /\ \E ro \in SourceOutcomes(RedditUrls), wo \in SourceOutcomes(UrlPool) :
         SearchStep(ro, wo)
    /\ UNCHANGED <<saved, scVars, clVars, spVars, drVars, rfVars, plVars, uiVars>>

\* mutant of Score: check C is left out, the last allowed iteration refines
ScoreWithoutCheckC ==
    /\ pc = "score"
    /\ \E results \in CtlResultChoices(new_posts) :
         LET r == ScoreOpportunities(new_posts, results)
             qualified == all_qualified \o SelectSeq(r.scored, Qualifies)
         IN  IF r.raised
             THEN /\ pc' = "aborted"
                  /\ stop_reason' = "exception"
                  /\ score_passes' = score_passes + 1
                  /\ UNCHANGED all_qualified
             ELSE /\ all_qualified' = qualified
                  /\ score_passes' = score_passes + 1
                  /\ IF Len(qualified) >= max_results
                     THEN pc' = "final" /\ stop_reason' = "target_reached"
                     ELSE pc' = "refine" /\ stop_reason' = stop_reason
    /\ UNCHANGED <<max_iterations, max_results, min_score, sources, keywords,
                   iteration, all_seen_urls, total_raw, current_keywords,
                   new_posts, top, search_passes>>
    /\ UNCHANGED <<saved, scVars, clVars, spVars, drVars, rfVars, plVars, uiVars>>

\* lines 161-175 and 185-186 for the values of `result` of the batches:
\* score the new posts, qualify, check B and C.  An exception of
\* score_opportunities is caught nowhere and ends the run.
ScoreStep(results) ==
    /\ pc = "score"
    /\ \E r \in {ScoreOpportunities(new_posts, results)} :
       \E qualified \in {all_qualified \o SelectSeq(r.scored, Qualifies)} :
           IF r.raised
           THEN /\ pc' = "aborted"
                /\ stop_reason' = "exception"
                /\ score_passes' = score_passes + 1
                /\ UNCHANGED all_qualified
           ELSE /\ all_qualified' = qualified
                /\ score_passes' = score_passes + 1
                /\ IF Len(qualified) >= max_results
                   THEN pc' = "final" /\ stop_reason' = "target_reached"
                   ELSE IF iteration < max_iterations
                   THEN pc' = "refine" /\ stop_reason' = stop_reason
                   ELSE pc' = "final" /\ stop_reason' = "completed"
    /\ UNCHANGED <<max_iterations, max_results, min_score, sources, keywords,
                   iteration, all_seen_urls, total_raw, current_keywords,
                   new_posts, top, search_passes>>

\* lines 161-175 and 185-186: score the new posts, qualify, check B and C
Score ==
    /\ pc = "score"
    /\ \E results \in CtlResultChoices(new_posts) : ScoreStep(results)
    /\ UNCHANGED <<saved, scVars, clVars, spVars, drVars, rfVars, plVars, uiVars>>

\* lines 176-184 for what the refinement oracle answers: refine the
\* keywords for the next iteration, or leave the loop
RefineStep(outcome) ==
    /\ pc = "refine"
    /\ LET new_keywords ==
               GenerateRefinedKeywords(RefineArgs.original_keywords,
                                       RefineArgs.high_scoring_posts, outcome)
       IN  IF new_keywords # <<>>
           THEN /\ current_keywords' = new_keywords
                /\ iteration' = iteration + 1
                /\ pc' = "search"
                /\ stop_reason' = stop_reason
           ELSE /\ pc' = "final"
                /\ stop_reason' = "no_keywords"
                /\ UNCHANGED <<current_keywords, iteration>>
    /\ UNCHANGED <<max_iterations, max_results, min_score, sources, keywords,
                   all_seen_urls, all_qualified, total_raw, new_posts, top,
                   search_passes, score_passes>>

\* lines 176-184: refine the keywords for the next iteration; rf_calls
\* counts the calls of the refinement oracle
Refine ==
    /\ pc = "refine"
    /\ \E outcome \in RefineOutcomes : RefineStep(outcome)
    /\ rf_calls' = rf_calls + 1
    /\ UNCHANGED <<rf_pc, rf_original, rf_posts, rf_summaries, rf_raw, rf_result,
                   rf_working>>
    /\ UNCHANGED <<saved, scVars, clVars, spVars, drVars, plVars, uiVars>>

\* lines 188-190: sort and trim
SortAndTrimStep ==
    /\ pc = "final"
    /\ all_qualified' = SortedDesc(all_qualified)
    /\ top' = Trim(all_qualified', max_results)
    /\ pc' = "done"
    /\ UNCHANGED <<max_iterations, max_results, min_score, sources, keywords,
                   iteration, all_seen_urls, total_raw, current_keywords,
                   new_posts, search_passes, score_passes, stop_reason>>

SortAndTrim ==
    /\ SortAndTrimStep
    /\ UNCHANGED <<saved, scVars, clVars, spVars, drVars, rfVars, plVars, uiVars>>

\* what `parsed` is after the retry loop, as the control loop sees it
CtlDraftChoices == {NoneParsed, TruthyParsed, DictParsed(FullDraft)}

\* lines 192-230: report, then exit on an empty top, else draft and save.
\* An exception of draft_outreach is caught nowhere and ends the run.
Export ==
    /\ pc = "done"
    /\ IF top = <<>>
       THEN pc' = "exited" /\ saved' = saved
       ELSE \E parsed \in [DOMAIN PostsToDraft(top) -> CtlDraftChoices] :
              LET r == DraftOutreach(top, parsed)
              IN  IF r.raised
                  THEN pc' = "aborted" /\ saved' = saved
                  ELSE /\ pc' = "saved"
                       /\ saved' = {"csv", "json"} \cup
                             (IF r.drafts # <<>> THEN {"outreach"} ELSE {})
    /\ UNCHANGED <<max_iterations, max_results, min_score, sources, keywords,
                   iteration, all_seen_urls, all_qualified, total_raw,
                   current_keywords, new_posts, top, search_passes,
                   score_passes, stop_reason>>
    /\ UNCHANGED <<scVars, clVars, spVars, drVars, rfVars, plVars, uiVars>>

Next == Search \/ Score \/ Refine \/ SortAndTrim \/ Export

Spec == Init /\ [][Next]_vars

\* main() is one sequential program and, every collaborator call returning
\* or failing in finite time, it takes each step it can take
SpecLive == Init /\ [][Next]_vars /\ WF_vars(Next)

(***************************************************************************)
(* ui.py, the loop of the run button (lines 180-259), beside main(): both  *)
(* loops get the same configuration and, step by step, the same answers of *)
(* the sources and the oracles.                                            *)
(***************************************************************************)
\* one collaborator call: the function, its keyword list and its post list
Call(fn, kws, posts) == [fn |-> fn, keywords |-> kws, posts |-> posts]

\* agent.py lines 134-146: the scrape calls of an iteration
SearchCalls ==
    (IF "reddit" \in sources
     THEN <<Call("scrape_reddit", current_keywords, <<>>)>> ELSE <<>>)
    \o (IF "web" \in sources
        THEN <<Call("scrape_web", current_keywords, <<>>)>> ELSE <<>>)

\* agent.py line 163
ScoreCalls == <<Call("score_opportunities", <<>>, new_posts)>>

\* agent.py lines 176-177
RefineCalls ==
    <<Call("generate_refined_keywords", RefineArgs.original_keywords,
           RefineArgs.high_scoring_posts)>>

\* ui.py lines 182-185
UiInit ==
    [pc |-> "search", iteration |-> 1, all_seen_urls |-> {},
     all_qualified |-> <<>>, total_raw |-> 0, current_keywords |-> keywords,
     new_posts |-> <<>>, top |-> <<>>, calls |-> <<>>]

\* ui.py lines 172-178 let the loop begin only with a keyword and a source
InitBoth ==
    /\ InitLoop
    /\ keywords # <<>>
    /\ sources # {}
    /\ ScOff
    /\ ClOff
    /\ SpOff
    /\ DrOff
    /\ PlOff
    /\ RfOff
    /\ ui = UiInit
    /\ agent_calls = <<>>

\* ui.py lines 195-211: the scrape calls of an iteration
UiSearchCalls ==
    (IF "reddit" \in sources
     THEN <<Call("scrape_reddit", ui.current_keywords, <<>>)>> ELSE <<>>)
    \o (IF "web" \in sources
        THEN <<Call("scrape_web", ui.current_keywords, <<>>)>> ELSE <<>>)

\* ui.py lines 190-225: scrape the enabled sources, count, dedup, check A
UiSearchStep(ro, wo) ==
    /\ ui.pc = "search"
    /\ \E iteration_posts \in {Extend(Extend(<<>>, "reddit", ro), "web", wo)} :
       \E fresh \in {Numbered(FilterNew(iteration_posts, ui.all_seen_urls),
                              ui.iteration)} :
           ui' = [ui EXCEPT !.total_raw = @ + Len(iteration_posts),
                            !.new_posts = fresh,
                            !.all_seen_urls = RecordSeen(@, fresh),
                            !.pc = IF fresh = <<>> THEN "final" ELSE "score",
                            !.calls = UiSearchCalls]

\* mutant of UiScoreStep: check B compares the posts qualified in this
\* iteration with max_results
UiScoreStepThisPass(results) ==
    /\ ui.pc = "score"
    /\ \E r \in {ScoreOpportunities(ui.new_posts, results)} :
       \E new_qualified \in {SelectSeq(r.scored, Qualifies)} :
           ui' = [ui EXCEPT
                    !.calls = <<Call("score_opportunities", <<>>, ui.new_posts)>>,
                    !.all_qualified = IF r.raised THEN @ ELSE @ \o new_qualified,
                    !.pc = IF r.raised THEN "aborted"
                           ELSE IF Len(new_qualified) >= max_results
                           THEN "final"
                           ELSE IF ui.iteration < max_iterations THEN "refine"
                           ELSE "final"]

\* ui.py lines 227-243: score the new posts, qualify, check B and C; an
\* exception of score_opportunities is caught nowhere
UiScoreStep(results) ==
    /\ ui.pc = "score"
    /\ \E r \in {ScoreOpportunities(ui.new_posts, results)} :
       \E new_qualified \in {SelectSeq(r.scored, Qualifies)} :
           ui' = [ui EXCEPT
                    !.calls = <<Call("score_opportunities", <<>>, ui.new_posts)>>,
                    !.all_qualified = IF r.raised THEN @ ELSE @ \o new_qualified,
                    !.pc = IF r.raised THEN "aborted"
                           ELSE IF Len(ui.all_qualified \o new_qualified) >= max_results
                           THEN "final"
                           ELSE IF ui.iteration < max_iterations THEN "refine"
                           ELSE "final"]

\* ui.py lines 243-255: refine the keywords for the next iteration, or
\* leave the loop
UiRefineStep(outcome) ==
    /\ ui.pc = "refine"
    /\ \E high \in {SortedDesc(ui.all_qualified)} :
       \E new_kw \in {GenerateRefinedKeywords(keywords, high, outcome)} :
           ui' = [ui EXCEPT
                    !.calls = <<Call("generate_refined_keywords", keywords, high)>>,
                    !.current_keywords = IF new_kw # <<>> THEN new_kw ELSE @,
                    !.iteration = IF new_kw # <<>> THEN @ + 1 ELSE @,
                    !.pc = IF new_kw # <<>> THEN "search" ELSE "final"]

\* ui.py lines 258-259: sort and trim
UiSortAndTrimStep ==
    /\ ui.pc = "final"
    /\ \E sorted \in {SortedDesc(ui.all_qualified)} :
           ui' = [ui EXCEPT !.all_qualified = sorted,
                            !.top = Trim(sorted, max_results),
                            !.pc = "done",
                            !.calls = <<>>]

BothFrame == UNCHANGED <<saved, scVars, clVars, spVars, drVars, rfVars, plVars>>

BothSearch ==
    /\ pc = "search"
    /\ \E ro \in SourceOutcomes(RedditUrls), wo \in SourceOutcomes(UrlPool) :
         SearchStep(ro, wo) /\ UiSearchStep(ro, wo)
    /\ agent_calls' = SearchCalls
    /\ BothFrame

BothScore ==
    /\ pc = "score"
    /\ \E results \in CtlResultChoices(new_posts) :
         ScoreStep(results) /\ UiScoreStep(results)
    /\ agent_calls' = ScoreCalls
    /\ BothFrame

BothRefine ==
    /\ pc = "refine"
    /\ \E outcome \in RefineOutcomes : RefineStep(outcome) /\ UiRefineStep(outcome)
    /\ agent_calls' = RefineCalls
    /\ BothFrame

BothSortAndTrim ==
    /\ SortAndTrimStep
    /\ UiSortAndTrimStep
    /\ agent_calls' = <<>>
    /\ BothFrame

NextBoth == BothSearch \/ BothScore \/ BothRefine \/ BothSortAndTrim

SpecBoth == InitBoth /\ [][NextBoth]_vars

(***************************************************************************)
(* scorer.py score_opportunities(), one step per loop body.                *)
(***************************************************************************)
\* the dicts the scoring oracle puts in its array: all five fields, or the
\* intent_score alone (out of the documented range), without or with an id
FullInfo ==
    [topic_label |-> "GRE", intent_score |-> 85, recommended_action |-> "DM",
     suggested_response |-> "r", why_this_matters |-> "w"]

BareInfo == [intent_score |-> 150]

IdChoices == {0, 1}

ScItems ==
    {NumberItem} \cup
    {DictItem(d) : d \in {FullInfo, BareInfo}} \cup
    {DictItem(Update(d, [id |-> k])) : d \in {FullInfo, BareInfo}, k \in IdChoices}

\* what _parse_response returns for one response that parses
ParsedChoices ==
    {NoneResult, NumberResult, ObjectResult} \cup
    {ListResult(s) : s \in SeqsUpTo(ScItems, MaxItems)}

\* the posts argument: n raw posts, told apart by their url
RawPosts(n) == [i \in 1..n |-> [source |-> "web", url |-> i]]

\* 1-based number of the batch that begins at start (line 68)
BatchNum(start) == start \div batch_size + 1

InitScorer ==
    /\ CtlOff
    /\ ClOff
    /\ SpOff
    /\ DrOff
    /\ PlOff
    /\ UiOff
    /\ RfOff
    /\ sc_pc = "start"
    /\ sc_posts \in {RawPosts(n) : n \in 0..MaxPosts}
    /\ sc_scored = <<>>
    /\ sc_start = 0
    /\ sc_attempt = 0
    /\ sc_result = NoneResult
    /\ sc_calls = <<>>
    /\ sc_fails = <<>>

\* lines 59-64
ScEnter ==
    /\ sc_pc = "start"
    /\ sc_pc' = IF Len(sc_posts) = 0 THEN "returned" ELSE "batch"
    /\ UNCHANGED <<sc_posts, sc_scored, sc_start, sc_attempt, sc_result,
                   sc_calls, sc_fails>>
    /\ UNCHANGED <<ctlVars, clVars, spVars, drVars, rfVars, plVars, uiVars>>

\* lines 66-73: the next batch, with result = None
ScBatch ==
    /\ sc_pc = "batch"
    /\ sc_start < Len(sc_posts)
    /\ sc_result' = NoneResult
    /\ sc_attempt' = 0
    /\ sc_calls' = Append(sc_calls, 0)
    /\ sc_fails' = Append(sc_fails, 0)
    /\ sc_pc' = "attempt"
    /\ UNCHANGED <<sc_posts, sc_scored, sc_start>>
    /\ UNCHANGED <<ctlVars, clVars, spVars, drVars, rfVars, plVars, uiVars>>

\* lines 75-94, an attempt that raises: a transport error, or a response
\* that json.loads rejects
ScAttemptFails ==
    /\ sc_pc = "attempt"
    /\ \E error \in {"transport", "malformed"} :
         /\ sc_attempt' = sc_attempt + 1
         /\ sc_calls' = [sc_calls EXCEPT ![Len(sc_calls)] = @ + 1]
         /\ sc_fails' = [sc_fails EXCEPT ![Len(sc_fails)] = @ + 1]
         /\ sc_pc' = IF sc_attempt + 1 < MaxAttempts THEN "attempt" ELSE "merge"
    /\ UNCHANGED <<sc_posts, sc_scored, sc_start, sc_result>>
    /\ UNCHANGED <<ctlVars, clVars, spVars, drVars, rfVars, plVars, uiVars>>

\* mutant of ScAttemptParses: the retry loop goes on after a response parsed
ScAttemptParsesRetries ==
    /\ sc_pc = "attempt"
    /\ \E parsed \in ParsedChoices :
         /\ Len(parsed.items) <= Len(BatchOf(sc_posts, BatchNum(sc_start)))
         /\ sc_result' = parsed
    /\ sc_calls' = [sc_calls EXCEPT ![Len(sc_calls)] = @ + 1]
    /\ sc_attempt' = sc_attempt + 1
    /\ sc_pc' = IF sc_attempt + 1 < MaxAttempts THEN "attempt" ELSE "merge"
    /\ UNCHANGED <<sc_posts, sc_scored, sc_start, sc_fails>>
    /\ UNCHANGED <<ctlVars, clVars, spVars, drVars, rfVars, plVars, uiVars>>

\* lines 75-88, an attempt whose response parses: result is set and the
\* retry loop is left
ScAttemptParses ==
    /\ sc_pc = "attempt"
    /\ \E parsed \in ParsedChoices :
         /\ Len(parsed.items) <= Len(BatchOf(sc_posts, BatchNum(sc_start)))
         /\ sc_result' = parsed
    /\ sc_calls' = [sc_calls EXCEPT ![Len(sc_calls)] = @ + 1]
    /\ sc_pc' = "merge"
    /\ UNCHANGED <<sc_posts, sc_scored, sc_start, sc_attempt, sc_fails>>
    /\ UNCHANGED <<ctlVars, clVars, spVars, drVars, rfVars, plVars, uiVars>>

\* the posts list after the in-place updates of the batch at start
WithBatch(posts, start, batch) ==
    [i \in DOMAIN posts |->
        IF i > start /\ i <= start + Len(batch) THEN batch[i - start] ELSE posts[i]]

\* lines 96-107: result is None, the batch gets the fallback, next batch
ScFallback ==
    /\ sc_pc = "merge"
    /\ sc_result.kind = "null"
    /\ LET r == ScoreBatch(BatchOf(sc_posts, BatchNum(sc_start)), sc_result)
       IN  /\ sc_posts' = WithBatch(sc_posts, sc_start, r.posts)
           /\ sc_scored' = sc_scored \o r.posts
    /\ sc_start' = sc_start + batch_size
    /\ sc_pc' = "batch"
    /\ UNCHANGED <<sc_attempt, sc_result, sc_calls, sc_fails>>
    /\ UNCHANGED <<ctlVars, clVars, spVars, drVars, rfVars, plVars, uiVars>>

\* lines 109-126: result is merged into the batch, or an exception leaves
\* the function
ScMerge ==
    /\ sc_pc = "merge"
    /\ sc_result.kind # "null"
    /\ LET r == ScoreBatch(BatchOf(sc_posts, BatchNum(sc_start)), sc_result)
       IN  /\ sc_posts' = WithBatch(sc_posts, sc_start, r.posts)
           /\ sc_scored' = sc_scored \o SubSeq(r.posts, 1, r.done)
           /\ IF r.raised
              THEN sc_pc' = "raised" /\ sc_start' = sc_start
              ELSE sc_pc' = "batch" /\ sc_start' = sc_start + batch_size
    /\ UNCHANGED <<sc_attempt, sc_result, sc_calls, sc_fails>>
    /\ UNCHANGED <<ctlVars, clVars, spVars, drVars, rfVars, plVars, uiVars>>

\* line 128
ScReturn ==
    /\ sc_pc = "batch"
    /\ sc_start >= Len(sc_posts)
    /\ sc_pc' = "returned"
    /\ UNCHANGED <<sc_posts, sc_scored, sc_start, sc_attempt, sc_result,
                   sc_calls, sc_fails>>
    /\ UNCHANGED <<ctlVars, clVars, spVars, drVars, rfVars, plVars, uiVars>>

NextScorer ==
    ScEnter \/ ScBatch \/ ScAttemptFails \/ ScAttemptParses \/ ScFallback
        \/ ScMerge \/ ScReturn

SpecScorer == InitScorer /\ [][NextScorer]_vars

(***************************************************************************)
(* outreach.py classify_outreach_action().                                 *)
(***************************************************************************)
ScoreRange == 0..100

ActionChoices == {"DM", "comment", "content", "dm", ""}

InitClassify ==
    /\ CtlOff
    /\ ScOff
    /\ SpOff
    /\ DrOff
    /\ PlOff
    /\ UiOff
    /\ RfOff
    /\ cl_pc = "ready"
    /\ cl_post \in {[intent_score |-> s, recommended_action |-> a] :
                        s \in ScoreRange, a \in ActionChoices}
    /\ cl_tier = "unset"

Classify ==
    /\ cl_pc = "ready"
    /\ cl_tier' = ClassifyOutreachAction(cl_post)
    /\ cl_pc' = "classified"
    /\ UNCHANGED cl_post
    /\ UNCHANGED <<ctlVars, scVars, spVars, drVars, rfVars, plVars, uiVars>>

NextClassify == Classify

SpecClassify == InitClassify /\ [][NextClassify]_vars

(***************************************************************************)
(* outreach.py _detect_platform().                                         *)
(***************************************************************************)
\* the source field: what the scrapers set, no field (""), or another text
PlatformSources == {"reddit", "twitter", "quora", "web", "", "blog"}

InitPlatform ==
    /\ CtlOff
    /\ ScOff
    /\ ClOff
    /\ SpOff
    /\ DrOff
    /\ RfOff
    /\ pl_pc = "ready"
    /\ pl_source \in PlatformSources
    /\ pl_found \in SUBSET PlatformSubstrings
    /\ pl_platform = "unset"
    /\ UiOff

PlDetect ==
    /\ pl_pc = "ready"
    /\ pl_platform' = PlatformOf(pl_source, pl_found)
    /\ pl_pc' = "detected"
    /\ UNCHANGED <<pl_source, pl_found>>
    /\ UNCHANGED <<ctlVars, scVars, clVars, spVars, drVars, rfVars, uiVars>>

NextPlatform == PlDetect

SpecPlatform == InitPlatform /\ [][NextPlatform]_vars

(***************************************************************************)
(* outreach.py draft_outreach(), one step per loop body.                   *)
(***************************************************************************)
\* scored posts of each classification, told apart by their url; two of
\* them have no why_this_matters
DraftPostPool ==
    {[source |-> "web", url |-> 2, intent_score |-> 85,
      recommended_action |-> "DM", why_this_matters |-> "w"],
     [source |-> "reddit", url |-> 1, intent_score |-> 75,
      recommended_action |-> "comment"],
     [source |-> "web", url |-> 4, intent_score |-> 65,
      recommended_action |-> "content", why_this_matters |-> "w"],
     [source |-> "reddit", url |-> 3, intent_score |-> 90,
      recommended_action |-> "content"],
     [source |-> "web", url |-> 6, intent_score |-> 75,
      recommended_action |-> "DM", why_this_matters |-> "w"]}

\* what json.loads returns for one answer of the drafting oracle that parses
DraftParsedChoices ==
    {NoneParsed, FalsyParsed, TruthyParsed, DictParsed(EmptyDict),
     DictParsed(FullDraft), DictParsed([draft_message |-> "m"])}

InitDraft ==
    /\ CtlOff
    /\ ScOff
    /\ ClOff
    /\ SpOff
    /\ RfOff
    /\ PlOff
    /\ UiOff
    /\ dr_pc = "classify"
    /\ dr_posts \in SeqsUpTo(DraftPostPool, MaxDraftPosts)
    /\ dr_i = 1
    /\ dr_todo = <<>>
    /\ dr_j = 0
    /\ dr_attempt = 0
    /\ dr_parsed = NoneParsed
    /\ dr_drafts = <<>>
    /\ dr_calls = [i \in DOMAIN dr_posts |-> 0]

\* mutant of DrClassify: posts awaiting a draft are kept newest first
DrClassifyPrepends ==
    /\ dr_pc = "classify"
    /\ dr_i <= Len(dr_posts)
    /\ LET e == Classified(dr_posts)[dr_i]
       IN  IF e.action_type = "none"
           THEN UNCHANGED <<dr_drafts, dr_todo>>
           ELSE IF e.action_type = "content_idea"
           THEN /\ dr_drafts' = Append(dr_drafts, ContentDraft(e.post, e.platform))
                /\ UNCHANGED dr_todo
           ELSE /\ dr_todo' = <<e>> \o dr_todo
                /\ UNCHANGED dr_drafts
    /\ dr_i' = dr_i + 1
    /\ UNCHANGED <<dr_pc, dr_posts, dr_j, dr_attempt, dr_parsed, dr_calls>>
    /\ UNCHANGED <<ctlVars, scVars, clVars, spVars, rfVars, plVars, uiVars>>

\* lines 75-96: one pass of the first loop
DrClassify ==
    /\ dr_pc = "classify"
    /\ dr_i <= Len(dr_posts)
    /\ LET e == Classified(dr_posts)[dr_i]
       IN  IF e.action_type = "none"
           THEN UNCHANGED <<dr_drafts, dr_todo>>
           ELSE IF e.action_type = "content_idea"
           THEN /\ dr_drafts' = Append(dr_drafts, ContentDraft(e.post, e.platform))
                /\ UNCHANGED dr_todo
           ELSE /\ dr_todo' = Append(dr_todo, e)
                /\ UNCHANGED dr_drafts
    /\ dr_i' = dr_i + 1
    /\ UNCHANGED <<dr_pc, dr_posts, dr_j, dr_attempt, dr_parsed, dr_calls>>
    /\ UNCHANGED <<ctlVars, scVars, clVars, spVars, rfVars, plVars, uiVars>>

\* line 99: the first loop is over, the second begins
DrSecondLoop ==
    /\ dr_pc = "classify"
    /\ dr_i > Len(dr_posts)
    /\ dr_pc' = "draft"
    /\ dr_j' = 1
    /\ UNCHANGED <<dr_posts, dr_i, dr_todo, dr_attempt, dr_parsed, dr_drafts, dr_calls>>
    /\ UNCHANGED <<ctlVars, scVars, clVars, spVars, rfVars, plVars, uiVars>>

\* lines 99-110: the next post of posts_to_draft, with parsed = None
DrNextPost ==
    /\ dr_pc = "draft"
    /\ dr_j <= Len(dr_todo)
    /\ dr_parsed' = NoneParsed
    /\ dr_attempt' = 0
    /\ dr_pc' = "attempt"
    /\ UNCHANGED <<dr_posts, dr_i, dr_todo, dr_j, dr_drafts, dr_calls>>
    /\ UNCHANGED <<ctlVars, scVars, clVars, spVars, rfVars, plVars, uiVars>>

\* lines 111-131, an attempt that raises: a transport error, or an answer
\* that json.loads rejects
DrAttemptFails ==
    /\ dr_pc = "attempt"
    /\ \E error \in {"transport", "malformed"} :
         /\ dr_attempt' = dr_attempt + 1
         /\ dr_calls' = [dr_calls EXCEPT ![dr_todo[dr_j].idx] = @ + 1]
         /\ dr_pc' = IF dr_attempt + 1 < DraftAttempts THEN "attempt" ELSE "append"
    /\ UNCHANGED <<dr_posts, dr_i, dr_todo, dr_j, dr_parsed, dr_drafts>>
    /\ UNCHANGED <<ctlVars, scVars, clVars, spVars, rfVars, plVars, uiVars>>

\* lines 111-128, an attempt whose answer parses: parsed is set and the
\* retry loop is left
DrAttemptParses ==
    /\ dr_pc = "attempt"
    /\ \E parsed \in DraftParsedChoices : dr_parsed' = parsed
    /\ dr_calls' = [dr_calls EXCEPT ![dr_todo[dr_j].idx] = @ + 1]
    /\ dr_pc' = "append"
    /\ UNCHANGED <<dr_posts, dr_i, dr_todo, dr_j, dr_attempt, dr_drafts>>
    /\ UNCHANGED <<ctlVars, scVars, clVars, spVars, rfVars, plVars, uiVars>>

\* lines 133-142: the draft is appended, or parsed.get raises and the
\* exception leaves the function
DrAppend ==
    /\ dr_pc = "append"
    /\ IF DraftRaises(dr_parsed)
       THEN /\ dr_pc' = "raised"
            /\ UNCHANGED <<dr_drafts, dr_j>>
       ELSE /\ dr_drafts' =
                  Append(dr_drafts,
                         OracleDraft(dr_todo[dr_j].post, dr_todo[dr_j].action_type,
                                     dr_todo[dr_j].platform, dr_parsed))
            /\ dr_j' = dr_j + 1
            /\ dr_pc' = "draft"
    /\ UNCHANGED <<dr_posts, dr_i, dr_todo, dr_attempt, dr_parsed, dr_calls>>
    /\ UNCHANGED <<ctlVars, scVars, clVars, spVars, rfVars, plVars, uiVars>>

\* line 144
DrReturn ==
    /\ dr_pc = "draft"
    /\ dr_j > Len(dr_todo)
    /\ dr_pc' = "returned"
    /\ UNCHANGED <<dr_posts, dr_i, dr_todo, dr_j, dr_attempt, dr_parsed,
                   dr_drafts, dr_calls>>
    /\ UNCHANGED <<ctlVars, scVars, clVars, spVars, rfVars, plVars, uiVars>>

NextDraft ==
    DrClassify \/ DrSecondLoop \/ DrNextPost \/ DrAttemptFails \/ DrAttemptParses
        \/ DrAppend \/ DrReturn

SpecDraft == InitDraft /\ [][NextDraft]_vars

(***************************************************************************)
(* agent.py main(): the scraping and dedup of one iteration (lines         *)
(* 131-159), one step per source, from any seen set.                       *)
(***************************************************************************)
ScrapeSourceConfigs == SUBSET {"reddit", "web"}

\* history record of one source call
CallRecord(name, outcome) ==
    [name |-> name, raised |-> outcome.raised, urls |-> outcome.urls]

InitScrape ==
    /\ pc = "off"
    /\ max_iterations = 0
    /\ max_results = 0
    /\ min_score = 0
    /\ sources \in ScrapeSourceConfigs
    /\ keywords = <<>>
    /\ iteration = 0
    /\ all_seen_urls \in SUBSET UrlPool
    /\ all_qualified = <<>>
    /\ total_raw \in {Cardinality(all_seen_urls), Cardinality(all_seen_urls) + 1}
    /\ current_keywords = <<>>
    /\ new_posts = <<>>
    /\ top = <<>>
    /\ search_passes = 0
    /\ score_passes = 0
    /\ stop_reason = "none"
    /\ saved = {}
    /\ ScOff
    /\ ClOff
    /\ DrOff
    /\ PlOff
    /\ UiOff
    /\ RfOff
    /\ sp_pc = "reddit"
    /\ sp_posts = <<>>
    /\ sp_calls = <<>>

\* lines 134-139
SpReddit ==
    /\ sp_pc = "reddit"
    /\ IF "reddit" \in sources
       THEN \E ro \in SourceOutcomes(RedditUrls) :
              /\ sp_posts' = Extend(sp_posts, "reddit", ro)
              /\ sp_calls' = Append(sp_calls, CallRecord("reddit", ro))
       ELSE UNCHANGED <<sp_posts, sp_calls>>
    /\ sp_pc' = "web"
    /\ UNCHANGED <<ctlVars, scVars, clVars, drVars, rfVars, plVars, uiVars>>

\* lines 141-146
SpWeb ==
    /\ sp_pc = "web"
    /\ IF "web" \in sources
       THEN \E wo \in SourceOutcomes(UrlPool) :
              /\ sp_posts' = Extend(sp_posts, "web", wo)
              /\ sp_calls' = Append(sp_calls, CallRecord("web", wo))
       ELSE UNCHANGED <<sp_posts, sp_calls>>
    /\ sp_pc' = "dedup"
    /\ UNCHANGED <<ctlVars, scVars, clVars, drVars, rfVars, plVars, uiVars>>

\* lines 148-159: count, dedup, check A
SpDedup ==
    /\ sp_pc = "dedup"
    /\ total_raw' = total_raw + Len(sp_posts)
    /\ new_posts' = FilterNew(sp_posts, all_seen_urls)
    /\ all_seen_urls' = RecordSeen(all_seen_urls, new_posts')
    /\ sp_pc' = IF new_posts' = <<>> THEN "stopped" ELSE "score"
    /\ UNCHANGED <<pc, max_iterations, max_results, min_score, sources, keywords,
                   iteration, all_qualified, current_keywords, top,
                   search_passes, score_passes, stop_reason, saved>>
    /\ UNCHANGED <<sp_posts, sp_calls>>
    /\ UNCHANGED <<scVars, clVars, drVars, rfVars, plVars, uiVars>>

NextScrape == SpReddit \/ SpWeb \/ SpDedup

SpecScrape == InitScrape /\ [][NextScrape]_vars

(***************************************************************************)
(* scorer.py generate_refined_keywords().                                  *)
(***************************************************************************)
RfKeywordPool == KeywordPool \cup {"gre prep"}

\* the refinement oracle call: it fails (a transport error, an answer that
\* does not parse, that cannot be iterated or that holds an item without
\* lower()), or yields the strings the comprehension of line 170 iterates
\* over: the items of an array, the keys of an object, the characters of a
\* string
RfOutcomes ==
    {[ok |-> FALSE, kws |-> <<>>]} \cup
    {[ok |-> TRUE, kws |-> s] : s \in SeqsUpTo(RfKeywordPool, MaxKeywords)}

\* n scored posts, the i-th with intent_score 100 - i
ScoredPosts(n) ==
    [i \in 1..n |-> [source |-> "web", url |-> i, topic_label |-> "GRE",
                     intent_score |-> 100 - i]]

\* n scored posts in no order of score, the scores distinct (n <= 12)
ShuffledPosts(n) ==
    [i \in 1..n |-> [source |-> "web", url |-> i, topic_label |-> "GRE",
                     intent_score |-> 60 + ((i * 7) % 13)]]

\* n scored posts with one score
TiedPosts(n) ==
    [i \in 1..n |-> [source |-> "web", url |-> i, topic_label |-> "GRE",
                     intent_score |-> 80]]

\* all_qualified when the refinement step begins
RfPostLists ==
    {ScoredPosts(n) : n \in {0, 1, SummaryLimit, SummaryLimit + 1}}
        \cup {ShuffledPosts(SummaryLimit + 1), TiedPosts(SummaryLimit + 1)}

\* a new post of the iteration that did not qualify
RfLowPost == [source |-> "web", url |-> 0, topic_label |-> "GRE", intent_score |-> 30]

\* working sets of a refined iteration: one keyword that is not an original
RfWorkingSets(originals) ==
    {<<k>> : k \in {x \in KeywordPool :
                      \A i \in DOMAIN originals : Lower(x) # Lower(originals[i])}}

\* the loop of main() at line 175 in iteration 1 or 2, with checks A, B and
\* C passed: the last qualified post, or a post that did not qualify, is the
\* new post of the iteration
InitRefine ==
    /\ pc = "refine"
    /\ iteration \in {1, 2}
    /\ max_iterations = iteration + 1
    /\ min_score \in MinScoreConfigs
    /\ sources = {"web"}
    /\ keywords \in SeqsUpTo(RfKeywordPool, MaxKeywords)
    /\ current_keywords \in
          (IF iteration = 1 THEN {keywords} ELSE RfWorkingSets(keywords))
    /\ all_qualified \in RfPostLists
    /\ max_results = Len(all_qualified) + 1
    /\ new_posts = (IF all_qualified = <<>> THEN <<RfLowPost>>
                    ELSE <<all_qualified[Len(all_qualified)]>>)
    /\ all_seen_urls = {all_qualified[i].url : i \in DOMAIN all_qualified}
                          \cup {new_posts[1].url}
    /\ total_raw = Cardinality(all_seen_urls)
    /\ top = <<>>
    /\ search_passes = iteration
    /\ score_passes = iteration
    /\ stop_reason = "none"
    /\ saved = {}
    /\ ScOff
    /\ ClOff
    /\ SpOff
    /\ DrOff
    /\ PlOff
    /\ UiOff
    /\ rf_pc = "enter"
    /\ rf_original = <<>>
    /\ rf_posts = <<>>
    /\ rf_summaries = <<>>
    /\ rf_raw = [ok |-> FALSE, kws |-> <<>>]
    /\ rf_result = <<>>
    /\ rf_calls = 0
    /\ rf_working = current_keywords

\* agent.py lines 176-177: the arguments are evaluated and the call is made
RfEnter ==
    /\ rf_pc = "enter"
    /\ rf_original' = RefineArgs.original_keywords
    /\ rf_posts' = RefineArgs.high_scoring_posts
    /\ rf_pc' = "ready"
    /\ UNCHANGED <<rf_summaries, rf_raw, rf_result, rf_calls, rf_working>>
    /\ UNCHANGED <<ctlVars, scVars, clVars, spVars, drVars, plVars, uiVars>>

\* lines 137-173: one call of the oracle, then the filter or the except
RfCall ==
    /\ rf_pc = "ready"
    /\ rf_summaries' = PostSummaries(rf_posts)
    /\ rf_calls' = rf_calls + 1
    /\ \E outcome \in RfOutcomes :
         /\ rf_raw' = outcome
         /\ rf_result' = GenerateRefinedKeywords(rf_original, rf_posts, outcome)
    /\ rf_pc' = "returned"
    /\ UNCHANGED <<rf_original, rf_posts, rf_working>>
    /\ UNCHANGED <<ctlVars, scVars, clVars, spVars, drVars, plVars, uiVars>>

\* mutant of RfReturn: the returned keywords are added to the working set
RfReturnMerges ==
    /\ rf_pc = "returned"
    /\ IF rf_result # <<>>
       THEN /\ current_keywords' = current_keywords \o rf_result
            /\ iteration' = iteration + 1
            /\ pc' = "search"
            /\ UNCHANGED stop_reason
       ELSE /\ pc' = "final"
            /\ stop_reason' = "no_keywords"
            /\ UNCHANGED <<current_keywords, iteration>>
    /\ rf_pc' = "done"
    /\ UNCHANGED <<max_iterations, max_results, min_score, sources, keywords,
                   all_seen_urls, all_qualified, total_raw, new_posts, top,
                   search_passes, score_passes, saved>>
    /\ UNCHANGED <<rf_original, rf_posts, rf_summaries, rf_raw, rf_result,
                   rf_calls, rf_working>>
    /\ UNCHANGED <<scVars, clVars, spVars, drVars, plVars, uiVars>>

\* agent.py lines 178-184: the returned list replaces the working set and
\* the next iteration begins, or the loop is left
RfReturn ==
    /\ rf_pc = "returned"
    /\ IF rf_result # <<>>
       THEN /\ current_keywords' = rf_result
            /\ iteration' = iteration + 1
            /\ pc' = "search"
            /\ UNCHANGED stop_reason
       ELSE /\ pc' = "final"
            /\ stop_reason' = "no_keywords"
            /\ UNCHANGED <<current_keywords, iteration>>
    /\ rf_pc' = "done"
    /\ UNCHANGED <<max_iterations, max_results, min_score, sources, keywords,
                   all_seen_urls, all_qualified, total_raw, new_posts, top,
                   search_passes, score_passes, saved>>
    /\ UNCHANGED <<rf_original, rf_posts, rf_summaries, rf_raw, rf_result,
                   rf_calls, rf_working>>
    /\ UNCHANGED <<scVars, clVars, spVars, drVars, plVars, uiVars>>

NextRefine == RfEnter \/ RfCall \/ RfReturn

SpecRefine == InitRefine /\ [][NextRefine]_vars

(***************************************************************************)
(* Properties of the control loop (specification Spec).                    *)
(***************************************************************************)
Urls(posts) == {posts[i].url : i \in DOMAIN posts}

DistinctUrls(posts) ==
    \A i, j \in DOMAIN posts : i # j => posts[i].url # posts[j].url

RunOver == pc \in {"final", "done", "aborted"}

\* C1: no two posts of the accumulated qualified list, and hence of the
\* final output, have the same URL.
C1_QualifiedUrlsDistinct == DistinctUrls(all_qualified) /\ DistinctUrls(top)

\* C2: every post of the final output has intent_score >= min_intent_score.
C2_OutputMeetsThreshold ==
    pc = "done" => \A i \in DOMAIN top : top[i].intent_score >= min_score

\* C2 witness: a run that ended with a non-empty output after its last
\* scoring pass rejected a post.
C2_Witness ==
    /\ pc = "done"
    /\ top # <<>>
    /\ stop_reason \in {"target_reached", "completed", "no_keywords"}
    /\ \E i \in DOMAIN new_posts : new_posts[i].url \notin Urls(all_qualified)

\* a termination condition (A no new posts, B target reached, refinement
\* without keywords) fired before the last allowed scoring pass
EarlyStop ==
    \/ stop_reason = "no_new_posts"
    \/ stop_reason \in {"target_reached", "no_keywords"} /\ iteration < max_iterations

\* C3: at most max_iterations search passes and scoring passes; fewer than
\* max_iterations scoring passes iff a termination condition fired early.
C3_PassesBounded ==
    /\ search_passes <= max_iterations
    /\ score_passes <= max_iterations
    /\ RunOver => (score_passes < max_iterations <=> EarlyStop)

\* C4: the final output has min(number of qualified posts, max_results) posts.
C4_OutputLength ==
    pc = "done" => Len(top) = Min(Len(all_qualified), max_results)

\* C4 witness: a run whose qualified list was longer than max_results.
C4_Witness ==
    pc = "done" /\ Len(all_qualified) > max_results /\ Len(top) = max_results

\* p comes before q: higher score, or the same score and discovered earlier
Before(p, q) ==
    \/ p.intent_score > q.intent_score
    \/ p.intent_score = q.intent_score /\ p.disc < q.disc

Dropped == {all_qualified[k] : k \in DOMAIN all_qualified} \ {top[i] : i \in DOMAIN top}

\* C5: the final output is ordered by intent_score descending, ties in the
\* order of discovery, and every post the truncation dropped comes after
\* every post that was kept.
C5_OutputOrder ==
    pc = "done" =>
        /\ \A i, j \in DOMAIN top : i < j => Before(top[i], top[j])
        /\ \A i \in DOMAIN top : \A d \in Dropped : Before(top[i], d)

\* C5 witness: the truncation dropped a post whose score equals that of a
\* post it kept, and the output holds two posts of different scores.
C5_Witness ==
    /\ pc = "done"
    /\ \E i \in DOMAIN top : \E d \in Dropped : top[i].intent_score = d.intent_score
    /\ \E i, j \in DOMAIN top : top[i].intent_score > top[j].intent_score

\* C9: the new posts of an iteration never hold the same URL twice.
C9_NewPostsUrlsDistinct == DistinctUrls(new_posts)

\* C10: a URL of the seen set at the start of an iteration is not among the
\* new posts of that iteration, the seen set only grows and holds every new
\* post's URL, and a scoring pass qualifies new posts only.
C10_SeenNeverNewAgain ==
    [][/\ all_seen_urls \subseteq all_seen_urls'
       /\ pc = "search" =>
            /\ Urls(new_posts') \cap all_seen_urls = {}
            /\ Urls(new_posts') \subseteq all_seen_urls'
       /\ pc = "score" =>
            \A k \in (Len(all_qualified) + 1)..Len(all_qualified') :
                \E i \in DOMAIN new_posts :
                    /\ new_posts[i].url = all_qualified'[k].url
                    /\ new_posts[i].disc = all_qualified'[k].disc]_vars

\* C10 witness: the second iteration ended with no new post although its
\* sources returned posts.
C10_Witness ==
    /\ pc = "final"
    /\ stop_reason = "no_new_posts"
    /\ iteration = 2
    /\ total_raw > 2 * MaxPerSource

\* the URLs the enabled sources return in one pass, for the outcomes ro, wo
ReturnedUrls(ro, wo) ==
    Urls([i \in DOMAIN Scraped("reddit", ro) |-> [url |-> Scraped("reddit", ro)[i]]])
        \cup Urls([i \in DOMAIN Scraped("web", wo) |-> [url |-> Scraped("web", wo)[i]]])

\* C11: both counters start at 0; a search pass adds to the total-raw count
\* the number of posts its sources returned, duplicates included, and adds to
\* the after-dedup count (the size of the seen set, which is what is
\* reported) the number of new posts it hands to scoring; no other step
\* changes either count.
C11_ReportedCounts ==
    /\ [](search_passes = 0 => total_raw = 0 /\ Cardinality(all_seen_urls) = 0)
    /\ [][IF pc = "search"
          THEN /\ \E ro \in SourceOutcomes(RedditUrls), wo \in SourceOutcomes(UrlPool) :
                    /\ total_raw' =
                          total_raw + Len(Scraped("reddit", ro)) + Len(Scraped("web", wo))
                    /\ Urls(new_posts') = ReturnedUrls(ro, wo) \ all_seen_urls
               /\ Cardinality(all_seen_urls') =
                      Cardinality(all_seen_urls) + Len(new_posts')
          ELSE total_raw' = total_raw /\ all_seen_urls' = all_seen_urls]_vars

\* C20: a scoring pass is made in an iteration iff the iteration has a new
\* post; an iteration without a new post ends the loop at once, and no
\* search, scoring or refinement follows it.
C20_ScoreIffNewPosts ==
    /\ [](score_passes =
            search_passes - (IF pc = "score" \/ stop_reason = "no_new_posts" THEN 1 ELSE 0))
    /\ [](pc = "score" => new_posts # <<>>)
    /\ [][pc = "search" =>
            IF new_posts' = <<>>
            THEN pc' = "final" /\ stop_reason' = "no_new_posts"
                 /\ score_passes' = score_passes
            ELSE pc' = "score"]_vars
    /\ [][stop_reason = "no_new_posts" =>
            /\ search_passes' = search_passes
            /\ score_passes' = score_passes
            /\ pc' \notin {"search", "score", "refine"}]_vars

\* C20 witness: the second iteration found no new post, so the run ended
\* with two search passes and one scoring pass.
C20_Witness ==
    /\ pc = "done"
    /\ stop_reason = "no_new_posts"
    /\ search_passes = 2
    /\ score_passes = 1

\* C19: a run whose final list is empty still reaches the export step and
\* writes the opportunities files.
C19_EmptyResultExported ==
    (top = <<>> /\ pc \in {"exited", "saved"}) =>
        pc = "saved" /\ {"csv", "json"} \subseteq saved

\* C21: the refinement step is reached only with new posts, fewer than
\* max_results qualified posts and iteration < max_iterations; a run that
\* called the refinement oracle r times refined in each of its first r
\* iterations, and the iteration it ended in without refining had no new
\* posts (A), or had reached the target (B), or was the last allowed one
\* with the target not reached (C), or its scoring raised; so the oracle is
\* called at most max_iterations - 1 times.
C21_RefineOnlyAfterChecks ==
    /\ pc = "refine" =>
          /\ new_posts # <<>>
          /\ Len(all_qualified) < max_results
          /\ iteration < max_iterations
    /\ rf_calls = (IF stop_reason = "no_keywords" THEN iteration ELSE iteration - 1)
    /\ rf_calls <= max_iterations - 1
    /\ stop_reason = "no_new_posts" => new_posts = <<>>
    /\ stop_reason \in {"target_reached", "completed", "no_keywords"} => new_posts # <<>>
    /\ stop_reason = "target_reached" => Len(all_qualified) >= max_results
    /\ stop_reason = "completed" =>
          Len(all_qualified) < max_results /\ iteration = max_iterations
    /\ stop_reason = "no_keywords" =>
          Len(all_qualified) < max_results /\ iteration < max_iterations

\* C21 witness: max_iterations is 2; iteration 1 refined, iteration 2 had
\* new posts and ended below the target without a refinement.
C21_Witness ==
    /\ pc = "final"
    /\ stop_reason = "completed"
    /\ max_iterations = 2
    /\ iteration = 2
    /\ new_posts # <<>>
    /\ Len(all_qualified) < max_results
    /\ rf_calls = 1

\* C28: every run reaches the end of the loop and then sorts and trims the
\* qualified posts.
C28_EventuallySortedAndTrimmed == <>(pc = "done")

(***************************************************************************)
(* Properties of classify_outreach_action (specification SpecClassify).    *)
(***************************************************************************)
\* C6: dm iff score >= 80 and action DM; comment iff score >= 70 and action
\* comment; content_idea iff score >= 60 and action content; none otherwise.
C6_ClassifyTable ==
    cl_pc = "classified" =>
        LET score == cl_post.intent_score
            action == cl_post.recommended_action
            isDm == score >= 80 /\ action = "DM"
            isComment == score >= 70 /\ action = "comment"
            isContent == score >= 60 /\ action = "content"
        IN  /\ cl_tier = "dm" <=> isDm
            /\ cl_tier = "comment" <=> isComment
            /\ cl_tier = "content_idea" <=> isContent
            /\ cl_tier = "none" <=> ~(isDm \/ isComment \/ isContent)
            /\ score = 85 /\ action = "DM" => cl_tier = "dm"
            /\ score = 65 /\ action = "comment" => cl_tier = "none"
            /\ score = 60 /\ action = "content" => cl_tier = "content_idea"
            /\ score = 59 /\ action = "content" => cl_tier = "none"

\* C6 witness: action DM with a score in 70..79 was classified none.
C6_Witness ==
    /\ cl_pc = "classified"
    /\ cl_post.recommended_action = "DM"
    /\ cl_post.intent_score = 75
    /\ cl_tier = "none"

(***************************************************************************)
(* Properties of score_opportunities (specification SpecScorer).           *)
(***************************************************************************)
\* positions in posts of the b-th batch
BatchRange(b) ==
    {i \in DOMAIN sc_posts : (b - 1) * batch_size < i /\ i <= b * batch_size}

\* batches whose merge or fallback has been done
BatchesDone == {b \in DOMAIN sc_calls : b * batch_size <= sc_start}

ScoringKeys == DOMAIN FallbackFields

HasFallback(post) ==
    /\ ScoringKeys \subseteq DOMAIN post
    /\ post.topic_label = "general_education"
    /\ post.intent_score = 0
    /\ post.recommended_action = "content"
    /\ post.suggested_response = ""
    /\ post.why_this_matters = "Scoring failed"

\* C7: after 3 failed attempts for a batch each of its posts has the
\* fallback values; a step changes no post outside the batch it works on;
\* the fallback does not raise and scoring goes on to the next batch, so a
\* call that returned has scored every post.
C7_FailedBatchFallback ==
    /\ [](\A b \in BatchesDone :
            sc_fails[b] = 3 =>
                \A i \in BatchRange(b) :
                    HasFallback(sc_posts[i]) /\ sc_scored[i] = sc_posts[i])
    /\ [](sc_pc = "returned" => Len(sc_scored) = Len(sc_posts))
    /\ [][/\ \A i \in DOMAIN sc_posts :
                i \notin BatchRange(BatchNum(sc_start)) => sc_posts'[i] = sc_posts[i]
          /\ (sc_pc = "merge" /\ sc_fails[Len(sc_fails)] = 3) =>
                /\ sc_pc' = "batch"
                /\ sc_start' = sc_start + batch_size]_vars

\* C7 witness: the first batch failed 3 times, the second was scored by
\* the oracle, and the call returned.
C7_Witness ==
    /\ sc_pc = "returned"
    /\ Len(sc_posts) > batch_size
    /\ sc_fails[1] = 3
    /\ sc_fails[2] = 0
    /\ HasFallback(sc_scored[1])
    /\ sc_scored[batch_size + 1].intent_score = 85

\* C8: score_opportunities returns normally whatever the oracle answers.
C8_NeverRaises == sc_pc # "raised"

\* C16: a call that returned gives a list as long as its input, in the
\* order of the input, each post with all five scoring fields.
C16_SameLengthOrderFields ==
    sc_pc = "returned" =>
        /\ Len(sc_scored) = Len(sc_posts)
        /\ \A i \in DOMAIN sc_scored :
            /\ sc_scored[i].url = RawPosts(Len(sc_posts))[i].url
            /\ sc_scored[i].source = RawPosts(Len(sc_posts))[i].source
            /\ ScoringKeys \subseteq DOMAIN sc_scored[i]

\* C16 witness: 6 posts, the batch of 5 failed 3 times and the batch of 1
\* was scored by an oracle item that has the intent_score alone.
C16_Witness ==
    /\ sc_pc = "returned"
    /\ Len(sc_posts) = batch_size + 1
    /\ sc_fails[1] = 3
    /\ sc_fails[2] < 3
    /\ sc_scored[batch_size + 1].intent_score = 150

\* number of the batch merged last, when sc_pc = "batch" and sc_start > 0
LastBatch == sc_start \div batch_size

\* the items of the response that answer the post at the 0-based position k
\* of its batch: by id if every item has one, by position otherwise
MatchingItems(items, k) ==
    IF \A j \in DOMAIN items : items[j].t = "dict" /\ "id" \in DOMAIN items[j].v
    THEN {j \in DOMAIN items : items[j].v.id = k}
    ELSE {j \in DOMAIN items : j = k + 1}

\* C17: after a batch was merged with a parsed response, a post without a
\* matching item has the fallback values of a failed batch, and a post with
\* a matching item has the values the oracle gave in it.
C17_UnmatchedGetsFallback ==
    (sc_pc = "batch" /\ sc_start > 0 /\ sc_result.kind = "list") =>
        \A i \in BatchRange(LastBatch) :
            LET hits == MatchingItems(sc_result.items, i - (LastBatch - 1) * batch_size - 1)
            IN  IF hits = {}
                THEN HasFallback(sc_posts[i])
                ELSE \E j \in hits :
                        \A f \in ScoringKeys \cap DOMAIN sc_result.items[j].v :
                            sc_posts[i][f] = sc_result.items[j].v[f]

\* C18: a post that has not been processed has none of the scoring fields,
\* and a post that has them has an intent_score in 0..100.
C18_ScoreInRange ==
    \A i \in DOMAIN sc_posts :
        IF i > Len(sc_scored)
        THEN ScoringKeys \cap DOMAIN sc_posts[i] = {}
        ELSE ScoringKeys \subseteq DOMAIN sc_posts[i]
                => sc_posts[i].intent_score \in 0..100

RECURSIVE CallsFrom(_)
CallsFrom(b) == IF b > Len(sc_calls) THEN 0 ELSE sc_calls[b] + CallsFrom(b + 1)

\* ceil(n / 5) for the n posts of the argument
CeilBatches == (Len(sc_posts) + 4) \div 5

\* C24: a batch has at most 5 posts and each post is in one batch; the
\* oracle is called at most 3 times for a batch, at most one of its calls
\* parsed, and after a call that parsed no attempt follows for the batch;
\* the calls of all batches are at most 3 * ceil(n / 5), and a call that
\* returned has called the oracle for each of the ceil(n / 5) batches.
C24_CallsBounded ==
    /\ Len(sc_calls) <= CeilBatches
    /\ sc_pc \in {"attempt", "merge"} => BatchNum(sc_start) = Len(sc_calls)
    /\ \A b \in 1..CeilBatches : Cardinality(BatchRange(b)) \in 1..5
    /\ \A i \in DOMAIN sc_posts :
          Cardinality({b \in 1..CeilBatches : i \in BatchRange(b)}) = 1
    /\ \A b \in DOMAIN sc_calls :
          /\ sc_calls[b] <= 3
          /\ sc_calls[b] - sc_fails[b] \in {0, 1}
          /\ sc_calls[b] > sc_fails[b] => ~(sc_pc = "attempt" /\ b = Len(sc_calls))
    /\ CallsFrom(1) <= 3 * CeilBatches
    /\ sc_pc = "returned" =>
          /\ Len(sc_calls) = CeilBatches
          /\ \A b \in DOMAIN sc_calls : sc_calls[b] >= 1

\* C24 witness: 6 posts; the third call for the batch of 5 parsed, the
\* first call for the batch of 1 parsed, and the call returned.
C24_Witness ==
    /\ sc_pc = "returned"
    /\ Len(sc_posts) = 6
    /\ sc_calls = <<3, 1>>
    /\ sc_fails = <<2, 0>>

\* C29: every post of a batch has why_this_matters 'Scoring failed' only
\* if the oracle was called 3 times for the batch and the 3 calls failed.
C29_FallbackOnlyAfterThreeFailures ==
    \A b \in BatchesDone :
        (\A i \in BatchRange(b) :
            /\ "why_this_matters" \in DOMAIN sc_posts[i]
            /\ sc_posts[i].why_this_matters = "Scoring failed")
          => sc_calls[b] = 3 /\ sc_fails[b] = 3

(***************************************************************************)
(* Properties of draft_outreach (specification SpecDraft).                 *)
(***************************************************************************)
\* the tier of the post at position i of the argument, by the table of C6
TierOf(i) ==
    LET score == dr_posts[i].intent_score
        action == dr_posts[i].recommended_action
    IN  IF score >= 80 /\ action = "DM" THEN "dm"
        ELSE IF score >= 70 /\ action = "comment" THEN "comment"
        ELSE IF score >= 60 /\ action = "content" THEN "content_idea"
        ELSE "none"

\* positions of the argument that hold the post with url u
PostsAt(u) == {i \in DOMAIN dr_posts : dr_posts[i].url = u}

DraftsFor(u) == {k \in DOMAIN dr_drafts : dr_drafts[k].url = u}

\* C13: draft_outreach does not raise whatever the oracle answers; the list
\* it returns has one draft for each post of tier dm, comment or
\* content_idea, with that tier, and none for the other posts; a post whose
\* 3 attempts all failed gets the placeholder draft.
C13_OneDraftPerClassified ==
    /\ dr_pc # "raised"
    /\ dr_pc = "returned" =>
         \A i \in DOMAIN dr_posts :
            /\ Cardinality(DraftsFor(dr_posts[i].url)) =
                  (IF TierOf(i) = "none" THEN 0
                   ELSE Cardinality(PostsAt(dr_posts[i].url)))
            /\ \A k \in DraftsFor(dr_posts[i].url) :
                  dr_drafts[k].action_type = TierOf(i)
    /\ (dr_pc = "draft" /\ dr_j > 1 /\ dr_attempt = 3) =>
         /\ dr_drafts[Len(dr_drafts)].url = dr_todo[dr_j - 1].post.url
         /\ dr_drafts[Len(dr_drafts)].draft_message = "[Draft generation failed]"
         /\ dr_drafts[Len(dr_drafts)].reason_for_outreach = "Draft generation failed"

\* C14: the drafting oracle is called only for posts of tier dm or comment;
\* a content_idea draft is made in the first loop, before any oracle call,
\* with an empty draft_message and a reason made of the post's
\* why_this_matters.
C14_ContentIdeaWithoutOracle ==
    /\ \A i \in DOMAIN dr_posts :
          dr_calls[i] > 0 => TierOf(i) \in {"dm", "comment"}
    /\ \A i \in DOMAIN dr_posts :
          (TierOf(i) = "content_idea" /\ i < dr_i) =>
              \E k \in DraftsFor(dr_posts[i].url) :
                  /\ dr_drafts[k].action_type = "content_idea"
                  /\ dr_drafts[k].draft_message = ""
                  /\ dr_drafts[k].reason_for_outreach =
                        (IF "why_this_matters" \in DOMAIN dr_posts[i]
                         THEN "Content idea: w" ELSE "Content idea: ")
    /\ \A k \in DOMAIN dr_drafts :
          dr_drafts[k].action_type = "content_idea" =>
              /\ dr_drafts[k].draft_message = ""
              /\ dr_drafts[k].reason_for_outreach \in {"Content idea: w", "Content idea: "}
    /\ dr_pc = "classify" => \A i \in DOMAIN dr_posts : dr_calls[i] = 0

\* C14 witness: a call returned a content idea draft and a DM draft written
\* by the oracle, which was called for the DM post alone.
C14_Witness ==
    /\ dr_pc = "returned"
    /\ Len(dr_posts) = 2
    /\ TierOf(1) = "dm"
    /\ TierOf(2) = "content_idea"
    /\ dr_calls[1] = 2
    /\ dr_calls[2] = 0
    /\ dr_drafts[1].reason_for_outreach = "Content idea: w"
    /\ dr_drafts[2].draft_message = "m"

\* urls of the posts of the argument whose tier is in group, in input order,
\* from position i on
RECURSIVE GroupUrlsFrom(_, _)
GroupUrlsFrom(i, group) ==
    IF i > Len(dr_posts) THEN <<>>
    ELSE (IF TierOf(i) \in group THEN <<dr_posts[i].url>> ELSE <<>>)
            \o GroupUrlsFrom(i + 1, group)

DraftUrls == [k \in DOMAIN dr_drafts |-> dr_drafts[k].url]

ExpectedDraftUrls ==
    GroupUrlsFrom(1, {"content_idea"}) \o GroupUrlsFrom(1, {"dm", "comment"})

\* C30: the list draft_outreach returns holds first the content_idea drafts
\* and then the dm and comment drafts, each group in the order of its posts
\* in the input list; while the call runs the drafts are a prefix of that
\* list.
C30_ContentIdeasFirstInInputOrder ==
    LET expected == ExpectedDraftUrls
        ideas == Len(GroupUrlsFrom(1, {"content_idea"}))
    IN  /\ Len(dr_drafts) <= Len(expected)
        /\ DraftUrls = SubSeq(expected, 1, Len(dr_drafts))
        /\ \A k \in DOMAIN dr_drafts :
              (dr_drafts[k].action_type = "content_idea") = (k <= ideas)
        /\ dr_pc = "returned" => Len(dr_drafts) = Len(expected)

\* C30 witness: a dm post, a content_idea post and a comment post in this
\* order; the returned list has the content_idea draft first, then the dm
\* draft, then the comment draft.
C30_Witness ==
    /\ dr_pc = "returned"
    /\ Len(dr_posts) = 3
    /\ TierOf(1) = "dm" /\ TierOf(2) = "content_idea" /\ TierOf(3) = "comment"
    /\ DraftUrls = <<dr_posts[2].url, dr_posts[1].url, dr_posts[3].url>>

(***************************************************************************)
(* Properties of the scraping of one iteration (specification SpecScrape). *)
(***************************************************************************)
\* the urls the calls from the k-th on returned, a call that raised giving none
RECURSIVE KeptFrom(_)
KeptFrom(k) ==
    IF k > Len(sp_calls) THEN <<>>
    ELSE (IF sp_calls[k].raised THEN <<>> ELSE sp_calls[k].urls) \o KeptFrom(k + 1)

\* C12: every enabled source is queried, whether or not another call
\* raised; iteration_posts holds the posts of the calls that returned, a
\* call that raised adding none; dedup and check A then go on as usual.
C12_SourceFailureIsEmpty ==
    /\ sp_pc \in {"reddit", "web", "dedup", "score", "stopped"}
    /\ sp_pc \in {"dedup", "score", "stopped"} =>
         /\ {sp_calls[k].name : k \in DOMAIN sp_calls} = sources
         /\ Len(sp_calls) = Cardinality(sources)
         /\ [i \in DOMAIN sp_posts |-> sp_posts[i].url] = KeptFrom(1)
    /\ sp_pc \in {"score", "stopped"} =>
         /\ Urls(new_posts) \subseteq Urls(sp_posts)
         /\ Urls(sp_posts) \subseteq all_seen_urls
         /\ sp_pc = "score" <=> new_posts # <<>>

\* C12 witness: the reddit call raised, the web call returned a post, and
\* the iteration went on to scoring with it.
C12_Witness ==
    /\ sp_pc = "score"
    /\ Len(sp_calls) = 2
    /\ sp_calls[1].name = "reddit" /\ sp_calls[1].raised
    /\ sp_calls[2].name = "web" /\ ~sp_calls[2].raised
    /\ Len(new_posts) = 1
    /\ new_posts[1].url = sp_calls[2].urls[1]

(***************************************************************************)
(* Properties of generate_refined_keywords (specification SpecRefine).     *)
(***************************************************************************)
\* the keywords of the pool that differ in case only
SameIgnoringCase(a, b) ==
    a = b \/ {a, b} \subseteq {"GRE prep", "GRE PREP", "gre prep"}

IsOriginal(k) == \E i \in DOMAIN rf_original : SameIgnoringCase(k, rf_original[i])

\* C15: the returned list holds no keyword equal, ignoring case, to an
\* original keyword, and is the oracle's list without those keywords, in the
\* oracle's order; original [GRE prep] and oracle output [GRE PREP, TOEFL
\* tips] give [TOEFL tips].
C15_RefinedExcludeOriginal ==
    rf_pc = "returned" =>
        /\ \A j \in DOMAIN rf_result : ~IsOriginal(rf_result[j])
        /\ rf_raw.ok => rf_result = SelectSeq(rf_raw.kws, LAMBDA k : ~IsOriginal(k))
        /\ (rf_original = <<"GRE prep">> /\ rf_raw.ok
                /\ rf_raw.kws = <<"GRE PREP", "TOEFL tips">>)
              => rf_result = <<"TOEFL tips">>

\* C15 witness: the example of the claim.
C15_Witness ==
    /\ rf_pc = "returned"
    /\ rf_original = <<"GRE prep">>
    /\ rf_raw.ok
    /\ rf_raw.kws = <<"GRE PREP", "TOEFL tips">>
    /\ rf_result = <<"TOEFL tips">>

\* the call of generate_refined_keywords has returned
RfReturned == rf_pc \in {"returned", "done"}

\* C25: a call of generate_refined_keywords calls the refinement oracle
\* once; when the call failed or its output did not parse, the function
\* returns the empty list (the call returns, it never raises).
C25_OneCallEmptyOnFailure ==
    /\ rf_calls = (IF RfReturned THEN 1 ELSE 0)
    /\ (RfReturned /\ ~rf_raw.ok) => rf_result = <<>>

\* C25 witness: the oracle failed for two original keywords and 11 posts;
\* one call was made and the empty list returned.
C25_Witness ==
    /\ rf_pc = "returned"
    /\ ~rf_raw.ok
    /\ rf_calls = 1
    /\ Len(rf_original) = 2
    /\ Len(rf_posts) = SummaryLimit + 1
    /\ rf_result = <<>>

\* posts of all_qualified whose score is above, or at least, v
ScoredAbove(v) == {j \in DOMAIN all_qualified : all_qualified[j].intent_score > v}

ScoredAtLeast(v) == {j \in DOMAIN all_qualified : all_qualified[j].intent_score >= v}

\* C23: the refiner is given the configured keywords, also in an iteration
\* whose working set is a refined one; it summarizes min(10, n) of the n
\* accumulated qualified posts, and the i-th summary has the i-th highest
\* score of the whole accumulated list.
C23_OriginalKeywordsTopTen ==
    /\ rf_pc \in {"ready", "returned", "done"} => rf_original = keywords
    /\ RfReturned =>
         /\ Len(rf_summaries) = Min(10, Len(all_qualified))
         /\ \A i \in DOMAIN rf_summaries :
               /\ Cardinality(ScoredAbove(rf_summaries[i].score)) < i
               /\ Cardinality(ScoredAtLeast(rf_summaries[i].score)) >= i

\* C23 witness: iteration 2 with a refined working set and 11 qualified
\* posts in no order of score, the only post of this iteration scored 72;
\* the refiner got the configured keywords and the scores 72 down to 62.
C23_Witness ==
    /\ rf_pc = "returned"
    /\ iteration = 2
    /\ keywords = <<"GRE prep">>
    /\ current_keywords = <<"TOEFL tips">>
    /\ rf_original = <<"GRE prep">>
    /\ all_qualified = ShuffledPosts(11)
    /\ new_posts = <<all_qualified[11]>>
    /\ Len(rf_summaries) = 10
    /\ rf_summaries[1].score = 72
    /\ rf_summaries[2].score = 71
    /\ rf_summaries[10].score = 62

\* C22: after a refinement that returned the empty list (an oracle failure
\* included) the loop is left with the working set as it was and no new
\* iteration begins; after one that returned keywords the next iteration
\* begins with exactly the returned list as the working set.
C22_EmptyEndsElseReplaces ==
    rf_pc = "done" =>
        /\ ~rf_raw.ok => rf_result = <<>>
        /\ rf_result = <<>> =>
              /\ pc = "final"
              /\ stop_reason = "no_keywords"
              /\ iteration = search_passes
              /\ current_keywords = rf_working
        /\ rf_result # <<>> =>
              /\ pc = "search"
              /\ iteration = search_passes + 1
              /\ current_keywords = rf_result

\* C22 witness: iteration 1 searched with [GRE prep]; the refiner returned
\* [TOEFL tips], which alone is the working set as iteration 2 begins.
C22_Witness ==
    /\ rf_pc = "done"
    /\ rf_working = <<"GRE prep">>
    /\ rf_raw.ok
    /\ rf_result = <<"TOEFL tips">>
    /\ current_keywords = <<"TOEFL tips">>
    /\ pc = "search"
    /\ iteration = 2

\* C27: a keyword of the oracle's list is returned if and only if it is
\* not an original keyword ignoring case, whether or not it is in the
\* working set of the iteration; so a keyword of the working set of a
\* refined iteration can be in the working set of the next one.
C27_FilteredAgainstOriginalsOnly ==
    (RfReturned /\ rf_raw.ok) =>
        \A j \in DOMAIN rf_raw.kws :
            (\E m \in DOMAIN rf_result : rf_result[m] = rf_raw.kws[j])
                = ~IsOriginal(rf_raw.kws[j])

\* C27 witness: max_iterations is 3; iteration 2 searched with [TOEFL tips],
\* the refiner returned TOEFL tips again, and iteration 3 begins with it.
C27_Witness ==
    /\ rf_pc = "done"
    /\ max_iterations = 3
    /\ iteration = 3
    /\ pc = "search"
    /\ rf_original = <<"GRE prep">>
    /\ rf_working = <<"TOEFL tips">>
    /\ current_keywords = <<"TOEFL tips">>

(***************************************************************************)
(* Properties of _detect_platform (specification SpecPlatform).            *)
(***************************************************************************)
MatchesReddit == pl_source = "reddit" \/ "reddit.com" \in pl_found

MatchesTwitter ==
    pl_source = "twitter" \/ "twitter.com" \in pl_found \/ "x.com" \in pl_found

MatchesQuora == pl_source = "quora" \/ "quora.com" \in pl_found

\* C26: a post that matches reddit by its source or its url is reported as
\* reddit whatever else it matches; otherwise one that matches twitter (by
\* source, or by twitter.com or x.com in the url) is twitter; otherwise one
\* that matches quora is quora; a post that matches none is web.
C26_PlatformPriority ==
    pl_pc = "detected" =>
        pl_platform =
            (IF MatchesReddit THEN "reddit"
             ELSE IF MatchesTwitter THEN "twitter"
             ELSE IF MatchesQuora THEN "quora"
             ELSE "web")

\* C26 witness: the source field says quora and the url contains reddit.com
\* and x.com; the post is reported as reddit.
C26_Witness ==
    /\ pl_pc = "detected"
    /\ pl_source = "quora"
    /\ pl_found = {"reddit.com", "x.com"}
    /\ pl_platform = "reddit"

(***************************************************************************)
(* Properties of the two control loops side by side (specification         *)
(* SpecBoth).                                                              *)
(***************************************************************************)
\* C31: with the same configuration and the same answers, the loop of ui.py
\* and the loop of agent.py make the same collaborator calls in each step,
\* are in the same iteration and at the same place (so they end in the same
\* iteration), and hold the same total-raw count, seen set (whose size is
\* the after-dedup count), new posts, qualified posts and final top list.
C31_LoopsEquivalent ==
    /\ ui.pc = pc
    /\ ui.iteration = iteration
    /\ ui.calls = agent_calls
    /\ ui.current_keywords = current_keywords
    /\ ui.total_raw = total_raw
    /\ ui.all_seen_urls = all_seen_urls
    /\ Cardinality(ui.all_seen_urls) = Cardinality(all_seen_urls)
    /\ ui.new_posts = new_posts
    /\ ui.all_qualified = all_qualified
    /\ ui.top = top

\* C31 witness: both loops ended in iteration 2 after a refinement, with a
\* post in the top list and a raw count above the after-dedup count.
C31_Witness ==
    /\ pc = "done"
    /\ ui.pc = "done"
    /\ ui.iteration = 2
    /\ iteration = 2
    /\ ui.top # <<>>
    /\ ui.top = top
    /\ ui.total_raw > Cardinality(ui.all_seen_urls)
    /\ total_raw = ui.total_raw

====
